---- MODULE Spec2Model ----
(***************************************************************************)
(* Model of the agent collaboration orchestrator of m365-collaboration     *)
(* (collaboration.py): agents exchange JSON messages through one shared    *)
(* remote folder.  The folder is the only shared state; every orchestrator *)
(* call is a sequence of remote requests, and requests of different agents *)
(* interleave freely.  The later sections model the token of an instance   *)
(* (auth.py) and the adapters in front of the orchestrator (cli.py,        *)
(* tool.py, execute of collaboration.py, config.py).                       *)
(***************************************************************************)
EXTENDS Integers, Sequences, FiniteSets, TLC

VARIABLES
    container,  \* the AgentMessages folder: entries, most recently modified first
    folder,     \* whether the AgentMessages folder exists on the drive
    drive,      \* per agent: whether its instance has cached the drive id
    op,         \* per agent: the call it is in, or the call it made last
    prov,       \* per message file: the writes the store accepted (history)
    faults,     \* whether the store may answer a request with an error status
    environ,    \* os.environ of the process, and the .env file beside config.py
    idp,        \* the identity provider: the flows it grants, the tokens it issued
    auth,       \* per agent: the M365Auth instance of its orchestrator
    run         \* per agent: the adapter invocation it is in, or made last

\* What lies outside the orchestrator's calls: they read and change none of it.
outside == <<environ, idp, auth, run>>

vars == <<container, folder, drive, op, prov, faults, environ, idp, auth, run>>

(***************************************************************************)
(* Values                                                                  *)
(***************************************************************************)
\* Python None / JSON null where a string is expected, and where a dict is.
None == "<None>"
NoneDict == [none |-> TRUE]

\* The agent_id of each orchestrator instance.
Agents == {"agent-a", "agent-b"}

\* Values uuid4().hex[:12] can take; two are enough for fresh ids and collisions.
Hexes == {"0a1b2c3d4e5f", "9f8e7d6c5b4a"}

\* Bound of the model: writes the store accepts in one behaviour.
MaxWrites == 3

\* Bound of the model: the largest limit a caller passes to get_messages.
MaxLimit == 2

\* The limit of get_messages when the caller passes none.
DefaultLimit == 50

Min(x, y) == IF x <= y THEN x ELSE y

\* An M365Auth instance as __init__ leaves it: no token cached.  tried and
\* sent are the instance's history: the acquisitions it attempted and the
\* requests sent with its token.
NoToken == [access_token |-> 0]
M365Auth(config) ==
    [config |-> config, cached |-> NoToken, tried |-> <<>>, mark |-> 0,
     call |-> "", allow |-> FALSE, ret |-> [exc |-> "", val |-> 0],
     sent |-> <<>>, ncalls |-> 0]

\* No adapter invocation yet; singleton is _collab of tool.py.
NoRun ==
    [entry |-> "", operation |-> "", args |-> <<>>, pc |-> "none",
     result |-> <<>>, singleton |-> FALSE, n |-> 0]

\* The orchestrator instances used directly: constructed and authenticated
\* by their callers, no adapter in play.
Direct ==
    /\ environ = [os |-> <<>>, dotenv |-> <<>>]
    /\ idp = [grants |-> {}, issued |-> 0, expired |-> {}]
    /\ auth = [a \in Agents |-> M365Auth(<<>>)]
    /\ run = [a \in Agents |-> NoRun]

EndsWith(s, suffix) ==
    /\ Len(s) >= Len(suffix)
    /\ SubSeq(s, Len(s) - Len(suffix) + 1, Len(s)) = suffix

\* Python truthiness of an Optional[str] and of an Optional[dict].
Truthy(s) == s # None /\ s # ""
TruthyDict(d) == d # NoneDict /\ DOMAIN d # {}

DictGet(d, k, default) == IF k \in DOMAIN d THEN d[k] ELSE default

\* dict.update: a shallow merge, the patch's keys win.
\* Variant of dict.update that forgets the keys already present.
DictReplace(d, patch) == patch

\* Variant of dict.update in which the keys already present keep their values.
DictUpdateKeeping(d, patch) ==
    [k \in DOMAIN d \cup DOMAIN patch |->
        IF k \in DOMAIN d THEN d[k] ELSE patch[k]]

DictUpdate(d, patch) ==
    [k \in DOMAIN d \cup DOMAIN patch |->
        IF k \in DOMAIN patch THEN patch[k] ELSE d[k]]

(***************************************************************************)
(* AgentMessage and its codec                                              *)
(***************************************************************************)
RequiredFields == {"id", "timestamp", "agent_id", "message_type", "title", "content"}

\* Variant of the encoding that leaves the creator out.
to_dict_anonymous(m) ==
    [id |-> m.id, timestamp |-> m.timestamp,
     message_type |-> m.message_type, title |-> m.title, content |-> m.content,
     priority |-> m.priority, status |-> m.status, context |-> m.context,
     in_reply_to |-> m.in_reply_to]

to_dict(m) ==
    [id |-> m.id, timestamp |-> m.timestamp, agent_id |-> m.agent_id,
     message_type |-> m.message_type, title |-> m.title, content |-> m.content,
     priority |-> m.priority, status |-> m.status, context |-> m.context,
     in_reply_to |-> m.in_reply_to]

\* Results of operations that may raise: [exc |-> name] or [exc |-> "", val |-> v].
Raise(e) == [exc |-> e]
Return(v) == [exc |-> "", val |-> v]

\* Variant of the decoding that drops the reference to another message.
from_dict_unlinked(data) ==
    IF data.py # "dict" THEN Raise("TypeError")
    ELSE IF ~(RequiredFields \subseteq DOMAIN data.v) THEN Raise("KeyError")
    ELSE Return(
        [id |-> data.v["id"], timestamp |-> data.v["timestamp"],
         agent_id |-> data.v["agent_id"], message_type |-> data.v["message_type"],
         title |-> data.v["title"], content |-> data.v["content"],
         priority |-> DictGet(data.v, "priority", "normal"),
         status |-> DictGet(data.v, "status", "pending"),
         context |-> DictGet(data.v, "context", <<>>),
         in_reply_to |-> None])

\* Variant of the decoding whose default status follows the rule of
\* post_message.
from_dict_by_type(data) ==
    IF data.py # "dict" THEN Raise("TypeError")
    ELSE IF ~(RequiredFields \subseteq DOMAIN data.v) THEN Raise("KeyError")
    ELSE Return(
        [id |-> data.v["id"], timestamp |-> data.v["timestamp"],
         agent_id |-> data.v["agent_id"], message_type |-> data.v["message_type"],
         title |-> data.v["title"], content |-> data.v["content"],
         priority |-> DictGet(data.v, "priority", "normal"),
         status |-> DictGet(data.v, "status",
                            IF data.v["message_type"] = "task" THEN "pending"
                            ELSE "completed"),
         context |-> DictGet(data.v, "context", <<>>),
         in_reply_to |-> DictGet(data.v, "in_reply_to", None)])

\* data is what response.json() returned: [py |-> "dict", v |-> d] or another
\* Python value.  Subscripting a list or None with a string is a TypeError,
\* a missing required key a KeyError.
from_dict(data) ==
    IF data.py # "dict" THEN Raise("TypeError")
    ELSE IF ~(RequiredFields \subseteq DOMAIN data.v) THEN Raise("KeyError")
    ELSE Return(
        [id |-> data.v["id"], timestamp |-> data.v["timestamp"],
         agent_id |-> data.v["agent_id"], message_type |-> data.v["message_type"],
         title |-> data.v["title"], content |-> data.v["content"],
         priority |-> DictGet(data.v, "priority", "normal"),
         status |-> DictGet(data.v, "status", "pending"),
         context |-> DictGet(data.v, "context", <<>>),
         in_reply_to |-> DictGet(data.v, "in_reply_to", None)])

\* json.dumps(d).encode(): the text of a JSON object.
json_dumps(d) == [kind |-> "object", fields |-> d]

\* response.json() on a file body: a body that is not JSON raises, a JSON
\* object parses to a dict, any other JSON text to a non-dict value.
response_json(body) ==
    CASE body.kind = "object" -> Return([py |-> "dict", v |-> body.fields])
      [] body.kind = "array" -> Return([py |-> "list"])
      [] body.kind = "null" -> Return([py |-> "None"])
      [] OTHER -> Raise("JSONDecodeError")

(***************************************************************************)
(* The remote folder                                                       *)
(***************************************************************************)
Names(c) == {c[i].name : i \in DOMAIN c}

Body(c, name) == c[CHOOSE i \in DOMAIN c : c[i].name = name].body

\* Variant of the PUT that replaces the folder's content by the file.
PutContentAlone(c, name, body) == <<[name |-> name, body |-> body]>>

\* PUT .../{name}:/content: the file is created or replaced as a whole and
\* becomes the most recently modified entry.
PutContent(c, name, body) ==
    <<[name |-> name, body |-> body]>> \o SelectSeq(c, LAMBDA e : e.name # name)

\* The message held by the file of that name, a file written by
\* post_message or by update_message_status.
Stored(name) == from_dict(response_json(Body(container, name)).val).val

\* Variant of the filename that takes the id as the name of the file.
FileNameAsGiven(message_id) == message_id

\* Variant of the filename that appends the suffix to every id.
FileNameSuffixed(message_id) == message_id \o ".json"

\* filename of get_message and update_message_status.
FileName(message_id) ==
    IF ~EndsWith(message_id, ".json") THEN message_id \o ".json" ELSE message_id

(***************************************************************************)
(* Remote requests.  A request is served by the store or, in a behaviour    *)
(* with faults, answered with an error status (503) at the environment's   *)
(* choice.                                                                 *)
(***************************************************************************)
Answers == IF faults THEN {TRUE, FALSE} ELSE {TRUE}

\* GET /sites/{site_path}/drive, issued only while the drive id is not cached
\* (0: no request).
DriveAnswers(a) ==
    IF drive[a] THEN {0} ELSE {IF served THEN 200 ELSE 503 : served \in Answers}

\* POST .../root/children creating the folder with conflictBehavior "fail".
EnsureStatus(served) == IF ~served THEN 503 ELSE IF folder THEN 409 ELSE 201

\* GET .../{name}:/content.
GetStatus(name, served) ==
    IF ~served THEN 503
    ELSE IF name \in Names(container) /\ Body(container, name).kind # "folder" THEN 200
    ELSE 404

\* Variant of the PUT that the store refuses (409) when the file exists.
PutStatusCreateOnly(name, served) ==
    IF ~served THEN 503 ELSE IF name \in Names(container) THEN 409 ELSE 201

\* PUT .../{name}:/content.
PutStatus(name, served) ==
    IF ~served THEN 503 ELSE IF name \in Names(container) THEN 200 ELSE 201

\* GET .../AgentMessages:/children?$top={limit}&$orderby=lastModifiedDateTime desc
ListStatus(served) == IF ~served THEN 503 ELSE IF folder THEN 200 ELSE 404

(***************************************************************************)
(* Calls.  op[a] describes the call agent a is in (pc = "fetched": between *)
(* the GET and the PUT of a status update) or the call it made last        *)
(* (pc = "done"): its arguments, the status of each request it issued      *)
(* (0: not issued), the number of PUTs it issued and what it returned.     *)
(***************************************************************************)
NoMsg == [kind |-> "none"]
Msg(m) == [kind |-> "msg", msg |-> m]
Raised(e) == [kind |-> "raised", exc |-> e]
MsgList(l) == [kind |-> "list", msgs |-> l]

Idle ==
    [call |-> "", pc |-> "idle", mid |-> "", name |-> "", status |-> "",
     patch |-> NoneDict, result |-> NoneDict, read |-> NoMsg, work |-> NoMsg,
     ret |-> NoMsg, at |-> 0, existed |-> FALSE, base |-> 0, wrote |-> 0,
     ftype |-> None, fstatus |-> None, limit |-> 0, listed |-> <<>>,
     failed |-> {}, given |-> NoneDict, args |-> NoneDict,
     s_drive |-> 0, s_ensure |-> 0, s_get |-> 0, s_put |-> 0, s_list |-> 0,
     nput |-> 0]

PostCalls == {"post_message", "post_task", "post_status", "post_handoff"}
UpdateCalls == {"update_message_status", "claim_task", "complete_task"}
ListCalls == {"get_messages", "get_pending_tasks"}

Writes(name) == IF name \in DOMAIN prov THEN prov[name] ELSE <<>>

\* datetime.now(timezone.utc): the instant, counted in writes the store has
\* accepted so far (the clock advances with every accepted write).
RECURSIVE Total(_, _)
Total(f, S) ==
    IF S = {} THEN 0
    ELSE LET n == CHOOSE x \in S : TRUE IN Len(f[n]) + Total(f, S \ {n})

Now == Total(prov, DOMAIN prov)

\* One accepted write: the call, the agent, the instant the call started,
\* the number of earlier writes the call had seen, and its arguments.
Event(a, call, at, base, patch, result) ==
    [call |-> call, by |-> a, at |-> at, base |-> base, patch |-> patch,
     result |-> result]

\* The write of a file: the folder entry and its history.
WriteFile(name, body, event) ==
    /\ container' = PutContent(container, name, body)
    /\ prov' = [prov EXCEPT ![name] = Append(@, event)]

(***************************************************************************)
(* post_message: _ensure_folder, build the message, PUT it, return it.     *)
(***************************************************************************)
\* Variant of the construction of a message that leaves status at the
\* default of the dataclass.
NewMessagePending(a, hex, now, title, content, message_type, priority, context, in_reply_to) ==
    [id |-> "msg-" \o hex,
     timestamp |-> now,
     agent_id |-> a,
     message_type |-> message_type,
     title |-> title,
     content |-> content,
     priority |-> priority,
     status |-> "pending",
     context |-> IF TruthyDict(context) THEN context ELSE <<>>,
     in_reply_to |-> in_reply_to]

NewMessage(a, hex, now, title, content, message_type, priority, context, in_reply_to) ==
    [id |-> "msg-" \o hex,
     timestamp |-> now,
     agent_id |-> a,
     message_type |-> message_type,
     title |-> title,
     content |-> content,
     priority |-> priority,
     status |-> IF message_type = "task" THEN "pending" ELSE "completed",
     context |-> IF TruthyDict(context) THEN context ELSE <<>>,
     in_reply_to |-> in_reply_to]

\* Variant of the status test of post_message that takes any answer for a
\* success.
PostReturnLenient(sp, msg) == Msg(msg)

\* What post_message does with the answer to its PUT.
PostReturn(sp, msg) ==
    IF sp \notin {200, 201} THEN Raised("RuntimeError") ELSE Msg(msg)

\* Variant of post_message that raises when the creation of the folder is
\* answered with an error status.
post_message_strict(a, call, caller, title, content, message_type, priority, context, in_reply_to) ==
    /\ op[a].pc # "fetched"
    /\ UNCHANGED <<faults, outside>>
    /\ \E sd \in DriveAnswers(a), ensured \in Answers, hex \in Hexes,
          served \in Answers :
        LET msg == NewMessage(a, hex, Now, title, content, message_type,
                              priority, context, in_reply_to)
            filename == msg.id \o ".json"
            se == EnsureStatus(ensured)
            sp == PutStatus(filename, served)
            call0 == [Idle EXCEPT !.call = call, !.pc = "done", !.at = Now,
                                  !.patch = caller.passed,
                                  !.given = caller.kept,
                                  !.args = caller.args, !.s_drive = sd]
            call1 == [call0 EXCEPT !.mid = msg.id, !.name = filename,
                                   !.existed = filename \in Names(container),
                                   !.base = Len(prov[filename]),
                                   !.s_ensure = se, !.s_put = sp, !.nput = 1,
                                   !.ret = PostReturn(sp, msg)]
        IN  IF sd = 503
            THEN /\ op' = [op EXCEPT ![a] = [call0 EXCEPT !.ret = Raised("RuntimeError")]]
                 /\ UNCHANGED <<container, folder, drive, prov>>
            ELSE IF se \notin {200, 201, 409}
            THEN /\ drive' = [drive EXCEPT ![a] = TRUE]
                 /\ op' = [op EXCEPT ![a] =
                        [call0 EXCEPT !.s_ensure = se, !.ret = Raised("RuntimeError")]]
                 /\ UNCHANGED <<container, folder, prov>>
            ELSE /\ drive' = [drive EXCEPT ![a] = TRUE]
                 /\ IF sp \in {200, 201}
                    THEN /\ Now < MaxWrites
                         /\ WriteFile(filename, json_dumps(to_dict(msg)),
                                      Event(a, call, Now, Len(prov[filename]),
                                            msg.context, NoneDict))
                         /\ folder' = TRUE
                         /\ op' = [op EXCEPT ![a] =
                                [call1 EXCEPT !.wrote = Len(prov[filename]) + 1]]
                    ELSE /\ folder' = (folder \/ se = 201)
                         /\ op' = [op EXCEPT ![a] = call1]
                         /\ UNCHANGED <<container, prov>>

post_message(a, call, caller, title, content, message_type, priority, context, in_reply_to) ==
    /\ op[a].pc # "fetched"
    /\ UNCHANGED <<faults, outside>>
    /\ \E sd \in DriveAnswers(a), ensured \in Answers, hex \in Hexes,
          served \in Answers :
        LET msg == NewMessage(a, hex, Now, title, content, message_type,
                              priority, context, in_reply_to)
            filename == msg.id \o ".json"
            se == EnsureStatus(ensured)
            sp == PutStatus(filename, served)
            call0 == [Idle EXCEPT !.call = call, !.pc = "done", !.at = Now,
                                  !.patch = caller.passed,
                                  !.given = caller.kept,
                                  !.args = caller.args, !.s_drive = sd]
            call1 == [call0 EXCEPT !.mid = msg.id, !.name = filename,
                                   !.existed = filename \in Names(container),
                                   !.base = Len(prov[filename]),
                                   !.s_ensure = se, !.s_put = sp, !.nput = 1,
                                   !.ret = PostReturn(sp, msg)]
        IN  IF sd = 503
            THEN \* drive_id raises inside _ensure_folder: no request follows
                 /\ op' = [op EXCEPT ![a] = [call0 EXCEPT !.ret = Raised("RuntimeError")]]
                 /\ UNCHANGED <<container, folder, drive, prov>>
            ELSE /\ drive' = [drive EXCEPT ![a] = TRUE]
                 /\ IF sp \in {200, 201}
                    THEN /\ Now < MaxWrites
                         /\ WriteFile(filename, json_dumps(to_dict(msg)),
                                      Event(a, call, Now, Len(prov[filename]),
                                            msg.context, NoneDict))
                         /\ folder' = TRUE
                         /\ op' = [op EXCEPT ![a] =
                                [call1 EXCEPT !.wrote = Len(prov[filename]) + 1]]
                    ELSE /\ folder' = (folder \/ se = 201)
                         /\ op' = [op EXCEPT ![a] = call1]
                         /\ UNCHANGED <<container, prov>>

\* The caller's side of a post: the context map as it passed it and as it
\* holds it when the call has returned, and the arguments as it gave them.
Caller(passed, kept, args) == [passed |-> passed, kept |-> kept, args |-> args]

\* An argument the caller may leave out: the parameter's default applies.
Omitted == "<omitted>"
Arg(v, default) == IF v = Omitted THEN default ELSE v

\* post_message called with title and content, and with message_type and
\* priority or without.
post_message_plain(a, title, content, message_type, priority) ==
    post_message(a, "post_message",
                 Caller(NoneDict, NoneDict,
                        [message_type |-> message_type, priority |-> priority]),
                 title, content,
                 Arg(message_type, "message"), Arg(priority, "normal"),
                 NoneDict, None)

\* Variant of post_task that always posts with priority "normal".
post_task_normal(a, title, description, priority, context) ==
    post_message(a, "post_task",
                 Caller(context, context, [priority |-> priority]),
                 title, description, "task", "normal", context, None)

post_task(a, title, description, priority, context) ==
    post_message(a, "post_task",
                 Caller(context, context, [priority |-> priority]),
                 title, description, "task", Arg(priority, "normal"), context,
                 None)

\* Variant of post_status that does not pass the task id on.
post_status_unlinked(a, title, status_text, task_id) ==
    post_message(a, "post_status",
                 Caller(NoneDict, NoneDict, [task_id |-> task_id]),
                 title, status_text, "status", "normal", NoneDict, None)

post_status(a, title, status_text, task_id) ==
    post_message(a, "post_status",
                 Caller(NoneDict, NoneDict, [task_id |-> task_id]),
                 title, status_text, "status", "normal", NoneDict, task_id)

\* ctx of post_handoff: a copy of the caller's map, with target_agent set in
\* the copy; the caller's map is left as it was.
HandoffContext(context, target_agent) ==
    [ctx |-> IF Truthy(target_agent)
             THEN DictUpdate(context, [target_agent |-> target_agent])
             ELSE context,
     caller |-> context]

post_handoff(a, title, description, context, target_agent) ==
    LET h == HandoffContext(context, target_agent) IN
    post_message(a, "post_handoff",
                 Caller(context, h.caller, [target_agent |-> target_agent]),
                 title, description, "handoff", "high", h.ctx, None)

\* Variant of get_message that raises on an answer other than 200.
get_message_raising(message_id, served) ==
    LET filename == FileName(message_id) IN
    IF GetStatus(filename, served) = 200
    THEN LET data == response_json(Body(container, filename))
             msg == IF data.exc = "" THEN from_dict(data.val) ELSE data
         IN  IF msg.exc = "" THEN Return(Msg(msg.val)) ELSE msg
    ELSE Raise("HTTPError")

(***************************************************************************)
(* get_message: one GET of the file; anything but a 200 is "absent".       *)
(***************************************************************************)
get_message(message_id, served) ==
    LET filename == FileName(message_id) IN
    IF GetStatus(filename, served) = 200
    THEN LET data == response_json(Body(container, filename))
             msg == IF data.exc = "" THEN from_dict(data.val) ELSE data
         IN  IF msg.exc = "" THEN Return(Msg(msg.val)) ELSE msg
    ELSE Return(NoMsg)

\* Variant of the modification that applies to tasks only.
UpdatedTasksOnly(msg, status, now, context_update) ==
    IF msg.message_type # "task" THEN msg
    ELSE [msg EXCEPT !.status = status,
                     !.timestamp = now,
                     !.context = IF TruthyDict(context_update)
                                 THEN DictUpdate(msg.context, context_update)
                                 ELSE msg.context]

(***************************************************************************)
(* update_message_status: get_message, modify the object read, PUT it back *)
(* as a whole.  The GET and the PUT are separate requests: other agents'   *)
(* requests may be served between them.                                    *)
(***************************************************************************)
\* Variant of the modification that leaves a completed message as it is.
UpdatedUnlessCompleted(msg, status, now, context_update) ==
    IF msg.status = "completed" THEN msg
    ELSE [msg EXCEPT !.status = status,
                     !.timestamp = now,
                     !.context = IF TruthyDict(context_update)
                                 THEN DictUpdate(msg.context, context_update)
                                 ELSE msg.context]

\* Variant of the modification that keeps the timestamp read.
UpdatedKeepingTime(msg, status, now, context_update) ==
    [msg EXCEPT !.status = status,
                !.context = IF TruthyDict(context_update)
                            THEN DictUpdate(msg.context, context_update)
                            ELSE msg.context]

\* The object written back, from the object read.
Updated(msg, status, now, context_update) ==
    [msg EXCEPT !.status = status,
                !.timestamp = now,
                !.context = IF TruthyDict(context_update)
                            THEN DictUpdate(msg.context, context_update)
                            ELSE msg.context]

\* get_message and the local part of update_message_status.
update_fetch(a, call, message_id, status, context_update, result) ==
    /\ op[a].pc # "fetched"
    /\ UNCHANGED <<container, folder, prov, faults, outside>>
    /\ \E sd \in DriveAnswers(a), served \in Answers :
        LET filename == FileName(message_id)
            got == get_message(message_id, served)
            call0 == [Idle EXCEPT !.call = call, !.pc = "done", !.mid = message_id,
                         !.name = filename, !.status = status,
                         !.patch = context_update, !.result = result,
                         !.at = Now, !.s_drive = sd]
            call1 == [call0 EXCEPT !.existed = filename \in Names(container),
                         !.base = Len(Writes(filename)),
                         !.s_get = GetStatus(filename, served)]
        IN  IF sd = 503
            THEN /\ op' = [op EXCEPT ![a] = [call0 EXCEPT !.ret = Raised("RuntimeError")]]
                 /\ UNCHANGED drive
            ELSE /\ drive' = [drive EXCEPT ![a] = TRUE]
                 /\ IF got.exc # ""
                    THEN op' = [op EXCEPT ![a] = [call1 EXCEPT !.ret = Raised(got.exc)]]
                    ELSE IF got.val.kind = "none"
                    THEN op' = [op EXCEPT ![a] = call1]
                    ELSE op' = [op EXCEPT ![a] =
                            [call1 EXCEPT !.pc = "fetched", !.read = got.val,
                                !.work = Msg(Updated(got.val.msg, status, Now,
                                                     context_update))]]

\* Variant of the end of update_message_status that sends the PUT once more
\* when it was answered with an error status.
put_back_retrying(a, sp, msg) ==
    IF sp \in {200, 201}
    THEN /\ Now < MaxWrites
         /\ WriteFile(op[a].name, json_dumps(to_dict(msg)),
                      Event(a, op[a].call, op[a].at, op[a].base,
                            op[a].patch, op[a].result))
         /\ op' = [op EXCEPT ![a] =
                [@ EXCEPT !.pc = "done", !.s_put = sp, !.nput = @ + 1,
                    !.ret = op[a].work, !.work = NoMsg,
                    !.wrote = Len(prov[op[a].name]) + 1]]
    ELSE /\ op' = [op EXCEPT ![a] =
                [@ EXCEPT !.pc = "done", !.s_put = sp, !.nput = @ + 2,
                    !.work = NoMsg]]
         /\ UNCHANGED <<container, prov>>

\* The end of update_message_status: the PUT of msg was answered sp.
put_back(a, sp, msg) ==
    IF sp \in {200, 201}
    THEN /\ Now < MaxWrites
         /\ WriteFile(op[a].name, json_dumps(to_dict(msg)),
                      Event(a, op[a].call, op[a].at, op[a].base,
                            op[a].patch, op[a].result))
         /\ op' = [op EXCEPT ![a] =
                [@ EXCEPT !.pc = "done", !.s_put = sp, !.nput = @ + 1,
                    !.ret = op[a].work, !.work = NoMsg,
                    !.wrote = Len(prov[op[a].name]) + 1]]
    ELSE /\ op' = [op EXCEPT ![a] =
                [@ EXCEPT !.pc = "done", !.s_put = sp, !.nput = @ + 1,
                    !.work = NoMsg]]
         /\ UNCHANGED <<container, prov>>

\* Variant of the write-back that is conditional on the version read: the
\* store refuses it (412) once another write has been accepted.
update_put_cas(a) ==
    /\ op[a].pc = "fetched"
    /\ UNCHANGED <<folder, drive, faults, outside>>
    /\ \E served \in Answers :
        put_back(a, IF served /\ Len(Writes(op[a].name)) # op[a].base
                    THEN 412 ELSE PutStatus(op[a].name, served),
                 op[a].work.msg)

\* Variant of the write-back that merges the context it sends into the
\* context stored at the time of the write.
update_put_merge(a) ==
    /\ op[a].pc = "fetched"
    /\ UNCHANGED <<folder, drive, faults, outside>>
    /\ \E served \in Answers :
        put_back(a, PutStatus(op[a].name, served),
                 [op[a].work.msg EXCEPT
                    !.context = DictUpdate(Stored(op[a].name).context, @)])

\* The write-back of update_message_status and its return.
update_put(a) ==
    /\ op[a].pc = "fetched"
    /\ UNCHANGED <<folder, drive, faults, outside>>
    /\ \E served \in Answers :
        put_back(a, PutStatus(FileName(op[a].mid), served), op[a].work.msg)

claim_task(a, task_id) ==
    update_fetch(a, "claim_task", task_id, "in_progress",
                 [claimed_by |-> a, claimed_at |-> Now], NoneDict)

update_message_status(a, message_id, status, context_update) ==
    update_fetch(a, "update_message_status", message_id, status,
                 context_update, NoneDict)

\* Variant of complete_task that marks a task completed without a result as
\* failed.
complete_task_or_fail(a, task_id, result) ==
    update_fetch(a, "complete_task", task_id,
                 IF TruthyDict(result) THEN "completed" ELSE "failed",
                 [completed_by |-> a,
                  result |-> IF TruthyDict(result) THEN result ELSE <<>>], result)

complete_task(a, task_id, result) ==
    update_fetch(a, "complete_task", task_id, "completed",
                 [completed_by |-> a,
                  result |-> IF TruthyDict(result) THEN result ELSE <<>>], result)

(***************************************************************************)
(* get_messages: list the folder, most recently modified first and capped  *)
(* at limit, then download, decode and filter each ".json" entry.          *)
(***************************************************************************)
\* The exceptions the loop of get_messages catches (and logs) per entry.
Caught == {"JSONDecodeError", "KeyError"}

\* The loop over the listed entries, from entry i on; failed: the entries
\* whose download is answered with an error status.
RECURSIVE Collect(_, _, _, _, _, _)
Collect(items, i, failed, message_type, status, messages) ==
    IF i > Len(items) THEN Return(messages)
    ELSE LET item == items[i]
             continue == Collect(items, i + 1, failed, message_type, status, messages)
             data == response_json(item.body)
             msg == IF data.exc = "" THEN from_dict(data.val) ELSE data
         IN  IF ~EndsWith(item.name, ".json") THEN continue
             ELSE IF item.body.kind = "folder" THEN continue
             ELSE IF i \in failed THEN continue
             ELSE IF msg.exc \in Caught THEN continue
             ELSE IF msg.exc # "" THEN msg
             ELSE IF Truthy(message_type) /\ msg.val.message_type # message_type
                  THEN continue
             ELSE IF Truthy(status) /\ msg.val.status # status THEN continue
             ELSE Collect(items, i + 1, failed, message_type, status,
                          Append(messages, msg.val))

\* The entries get_messages downloads.
Downloaded(items) ==
    {i \in 1..Len(items) :
        EndsWith(items[i].name, ".json") /\ items[i].body.kind # "folder"}

DownloadFailures(items) ==
    IF faults THEN {{}} \cup {{i} : i \in Downloaded(items)} ELSE {{}}

get_messages(a, call, message_type, status, limit) ==
    /\ op[a].pc # "fetched"
    /\ UNCHANGED <<container, folder, prov, faults, outside>>
    /\ \E sd \in DriveAnswers(a), served \in Answers :
        LET sl == ListStatus(served)
            items == SubSeq(container, 1, Min(limit, Len(container)))
            call0 == [Idle EXCEPT !.call = call, !.pc = "done",
                         !.ftype = message_type, !.fstatus = status,
                         !.limit = limit, !.at = Now, !.s_drive = sd]
        IN  IF sd = 503
            THEN /\ op' = [op EXCEPT ![a] = [call0 EXCEPT !.ret = Raised("RuntimeError")]]
                 /\ UNCHANGED drive
            ELSE /\ drive' = [drive EXCEPT ![a] = TRUE]
                 /\ IF sl # 200
                    THEN \* logged as a warning; the caller gets []
                         op' = [op EXCEPT ![a] =
                            [call0 EXCEPT !.s_list = sl, !.ret = MsgList(<<>>)]]
                    ELSE \E failed \in DownloadFailures(items) :
                         LET r == Collect(items, 1, failed, message_type, status, <<>>)
                         IN  op' = [op EXCEPT ![a] =
                                [call0 EXCEPT !.s_list = sl, !.listed = items,
                                    !.failed = failed,
                                    !.ret = IF r.exc = "" THEN MsgList(r.val)
                                            ELSE Raised(r.exc)]]

\* Variant of get_pending_tasks that filters by type only.
get_pending_tasks_any(a) ==
    get_messages(a, "get_pending_tasks", "task", None, DefaultLimit)

get_pending_tasks(a) ==
    get_messages(a, "get_pending_tasks", "task", "pending", DefaultLimit)

(***************************************************************************)
(* The task lifecycle: two agents post tasks and claim and complete them   *)
(* concurrently; the store serves every request.                           *)
(***************************************************************************)
FileNames == {"msg-" \o h \o ".json" : h \in Hexes}

\* Arguments the callers pass: the id of the first message, stored or not.
TaskIds == {"msg-0a1b2c3d4e5f"}
Results == {NoneDict, [ok |-> TRUE]}

Calls(a) ==
    \/ post_task(a, "Review", "Check X", "normal", NoneDict)
    \/ \E id \in TaskIds : claim_task(a, id)
    \/ \E id \in TaskIds, r \in Results : complete_task(a, id, r)
    \/ update_put(a)

Init ==
    /\ container = <<>>
    /\ folder = FALSE
    /\ drive = [a \in Agents |-> FALSE]
    /\ op = [a \in Agents |-> Idle]
    /\ prov = [n \in FileNames |-> <<>>]
    /\ faults = FALSE
    /\ Direct

Next == \E a \in Agents : Calls(a)

Spec == Init /\ [][Next]_vars

(***************************************************************************)
(* Properties of the task lifecycle.                                       *)
(***************************************************************************)
HasKey(d, k, v) == k \in DOMAIN d /\ d[k] = v

\* Agent a's last call has returned and made write number i of file n.
Made(a, n, i) == op[a].pc = "done" /\ op[a].name = n /\ op[a].wrote = i

\* C1: a task posted by post_task, then claimed by an agent A that read the
\* posted object (no other writer before its write), is stored and returned
\* with status "in_progress" and context.claimed_by = A; when an agent B
\* then completes it with no other writer in between, it is stored and
\* returned with status "completed", completed_by = B, claimed_by and
\* claimed_at still those of the claim, and result = the supplied result.
C1_ClaimThenComplete ==
    \A n \in FileNames :
        LET h == prov[n]
            m == Stored(n)
        IN  (/\ Len(h) >= 2
             /\ h[1].call = "post_task"
             /\ h[2].call = "claim_task" /\ h[2].base = 1) =>
                /\ Len(h) = 2 =>
                    /\ m.status = "in_progress"
                    /\ HasKey(m.context, "claimed_by", h[2].by)
                    /\ HasKey(m.context, "claimed_at", h[2].at)
                    /\ Made(h[2].by, n, 2) => op[h[2].by].ret = Msg(m)
                /\ (/\ Len(h) = 3
                    /\ h[3].call = "complete_task" /\ h[3].base = 2) =>
                    /\ m.status = "completed"
                    /\ HasKey(m.context, "completed_by", h[3].by)
                    /\ HasKey(m.context, "claimed_by", h[2].by)
                    /\ HasKey(m.context, "claimed_at", h[2].at)
                    /\ h[3].result # NoneDict =>
                            HasKey(m.context, "result", h[3].result)
                    /\ Made(h[3].by, n, 3) => op[h[3].by].ret = Msg(m)

\* C1, its case: a task posted by one agent, claimed by the other and
\* completed with a result, each call having read what the previous wrote.
C1_Witness ==
    \E n \in FileNames :
        /\ Len(prov[n]) = 3
        /\ prov[n][1].call = "post_task"
        /\ prov[n][2].call = "claim_task" /\ prov[n][2].base = 1
        /\ prov[n][2].by # prov[n][1].by
        /\ prov[n][3].call = "complete_task" /\ prov[n][3].base = 2
        /\ prov[n][3].result = [ok |-> TRUE]
        /\ Made(prov[n][3].by, n, 3)
        /\ Stored(n).status = "completed"

\* C2: when two agents have each called claim_task on the same stored task,
\* whatever the order of their reads and writes, both calls have returned a
\* message, and as long as no later write replaced theirs the stored
\* context.claimed_by is the agent_id of one of the two: the one whose write
\* the store accepted last.
C2_ConcurrentClaims ==
    \A a, b \in Agents :
        (/\ a # b
         /\ op[a].call = "claim_task" /\ op[a].pc = "done" /\ op[a].existed
         /\ op[b].call = "claim_task" /\ op[b].pc = "done" /\ op[b].existed
         /\ op[a].name = op[b].name) =>
            /\ op[a].ret.kind = "msg"
            /\ op[b].ret.kind = "msg"
            /\ op[a].wrote < op[b].wrote /\ Len(prov[op[a].name]) = op[b].wrote =>
                /\ "claimed_by" \in DOMAIN Stored(op[a].name).context
                /\ Stored(op[a].name).context.claimed_by \in {a, b}
                /\ Stored(op[a].name).context.claimed_by = b

\* C2, its case: the two claims overlapped (both read the same version) and
\* both have returned.
C2_Witness ==
    \E a, b \in Agents :
        /\ a # b
        /\ op[a].call = "claim_task" /\ op[a].pc = "done"
        /\ op[b].call = "claim_task" /\ op[b].pc = "done"
        /\ op[a].name = op[b].name
        /\ op[a].base = op[b].base /\ op[a].base >= 1
        /\ op[a].wrote = op[a].base + 1 /\ op[b].wrote = op[a].base + 2
        /\ op[a].ret.kind = "msg" /\ op[b].ret.kind = "msg"
        /\ Stored(op[a].name).context.claimed_by = b

\* C3: when two updates of the same message read the same stored version and
\* then both write, both return a message (no conflict is reported), and the
\* stored object is the later writer's: the version read with the later
\* writer's status and context keys and none of the earlier writer's.
C3_LostUpdate ==
    \A a, b \in Agents :
        (/\ a # b
         /\ op[a].call \in UpdateCalls /\ op[a].pc = "done"
         /\ op[b].call \in UpdateCalls /\ op[b].pc = "done"
         /\ op[a].name = op[b].name
         /\ op[a].s_get = 200 /\ op[b].s_get = 200
         /\ op[a].base = op[b].base
         /\ op[a].wrote = op[a].base + 1
         /\ op[b].wrote = op[a].base + 2
         /\ Len(prov[op[a].name]) = op[b].wrote) =>
            LET m == Stored(op[a].name)
                v == op[b].read.msg
            IN  /\ op[a].ret.kind = "msg"
                /\ op[b].ret.kind = "msg"
                /\ op[a].read = op[b].read
                /\ op[b].ret = Msg(m)
                /\ m.status = op[b].status
                /\ DOMAIN m.context = DOMAIN v.context \cup DOMAIN op[b].patch
                /\ \A k \in DOMAIN op[b].patch : m.context[k] = op[b].patch[k]
                /\ \A k \in DOMAIN v.context \ DOMAIN op[b].patch :
                        m.context[k] = v.context[k]
                /\ \A k \in DOMAIN op[a].patch :
                        k \notin DOMAIN v.context \cup DOMAIN op[b].patch =>
                            k \notin DOMAIN m.context

\* C3, its case: a completion and a claim read the same version; the
\* completion was written first and returned "completed", the claim was
\* written over it: the task is stored "in_progress" with no completed_by.
C3_Witness ==
    \E a, b \in Agents :
        /\ a # b
        /\ op[a].call = "complete_task" /\ op[a].pc = "done"
        /\ op[b].call = "claim_task" /\ op[b].pc = "done"
        /\ op[a].name = op[b].name
        /\ op[a].base = op[b].base
        /\ op[a].wrote = op[a].base + 1 /\ op[b].wrote = op[a].base + 2
        /\ Len(prov[op[a].name]) = op[b].wrote
        /\ op[a].ret.kind = "msg" /\ op[a].ret.msg.status = "completed"
        /\ Stored(op[a].name).status = "in_progress"
        /\ "completed_by" \notin DOMAIN Stored(op[a].name).context

\* C4 (state part): an update call whose id had no entry in the store has
\* returned None, without raising, and has issued no PUT.
C4_AbsentReturnsNone ==
    \A a \in Agents :
        (op[a].call \in UpdateCalls /\ op[a].pc = "done" /\ ~op[a].existed) =>
            /\ op[a].ret = NoMsg
            /\ op[a].nput = 0 /\ op[a].s_put = 0 /\ op[a].wrote = 0

\* C4 (step part): the step of an update call whose id has no entry leaves
\* the store as it is.
C4_AbsentStep ==
    \A a \in Agents :
        (/\ op'[a] # op[a]
         /\ op'[a].call \in UpdateCalls
         /\ ~op'[a].existed) =>
            /\ op'[a].pc = "done"
            /\ container' = container /\ folder' = folder /\ prov' = prov

\* C4: update_message_status, claim_task and complete_task called with an id
\* that has no entry in the store return None without raising, issue no PUT
\* and leave the store unchanged.
C4_UpdateAbsent == [] C4_AbsentReturnsNone /\ [][C4_AbsentStep]_vars

\* C4, its case: claim_task and complete_task have each returned None for an
\* id that was not stored, while another message was.
C4_Witness ==
    \E a, b \in Agents :
        /\ op[a].call = "claim_task" /\ op[a].pc = "done" /\ ~op[a].existed
        /\ op[b].call = "complete_task" /\ op[b].pc = "done" /\ ~op[b].existed
        /\ op[a].ret = NoMsg /\ op[b].ret = NoMsg
        /\ container # <<>>

(***************************************************************************)
(* The same calls, made by one agent against a store that may answer any   *)
(* request with an error status.                                           *)
(***************************************************************************)
InitFaults ==
    /\ container = <<>>
    /\ folder = FALSE
    /\ drive = [a \in Agents |-> FALSE]
    /\ op = [a \in Agents |-> Idle]
    /\ prov = [n \in FileNames |-> <<>>]
    /\ faults = TRUE
    /\ Direct

NextFaults == Calls("agent-a")

SpecFaults == InitFaults /\ [][NextFaults]_vars

(***************************************************************************)
(* Properties of the calls against a store that answers with errors.       *)
(***************************************************************************)
\* C5: an update call one of whose requests (the GET of the read or the PUT
\* of the write-back) was answered with a status that is neither a success
\* nor "not found" ends by raising: it does not return None, the value
\* returned for an id that is not stored.
C5_StoreErrorSurfaced ==
    \A a \in Agents :
        (/\ op[a].call \in UpdateCalls /\ op[a].pc = "done"
         /\ \/ op[a].s_get \notin {0, 200, 404}
            \/ op[a].s_put \notin {0, 200, 201}) =>
            /\ op[a].ret.kind = "raised"
            /\ op[a].ret # NoMsg

\* C6 (state part): a post call that got to the store (its client resolved
\* the drive id) has issued exactly one PUT, to the key <id>.json of the
\* message it built; if the PUT was answered non-2xx the call has raised,
\* returned no message and written nothing; otherwise it returned the
\* message.
C6_OnePut ==
    \A a \in Agents :
        (op[a].call \in PostCalls /\ op[a].pc = "done") =>
            /\ op[a].nput <= 1
            /\ op[a].s_drive # 503 =>
                /\ op[a].nput = 1
                /\ op[a].name = op[a].mid \o ".json"
                /\ op[a].s_put \notin {200, 201} =>
                    /\ op[a].ret.kind = "raised"
                    /\ op[a].wrote = 0
                /\ op[a].s_put \in {200, 201} =>
                    /\ op[a].ret.kind = "msg"
                    /\ op[a].ret.msg.id = op[a].mid
                    /\ Made(a, op[a].name, Len(prov[op[a].name])) =>
                            Stored(op[a].name) = op[a].ret.msg

\* C6 (step part): a post call is one step; when its PUT is answered non-2xx
\* the step leaves every stored file as it was (nothing is written, nothing
\* is undone) and no further step of the call follows.
C6_FailedPutStep ==
    \A a \in Agents :
        (/\ op'[a] # op[a]
         /\ op'[a].call \in PostCalls) =>
            /\ op'[a].pc = "done"
            /\ op'[a].s_put \notin {200, 201} =>
                    container' = container /\ prov' = prov

Stem(name) == SubSeq(name, 1, Len(name) - Len(".json"))

Without(d, k) == [f \in DOMAIN d \ {k} |-> d[f]]

FoundMessage(name, message_type, status) ==
    [id |-> Stem(name), timestamp |-> 0, agent_id |-> "agent-b",
     message_type |-> message_type, title |-> "Review", content |-> "Check X",
     priority |-> "normal", status |-> status, context |-> <<>>,
     in_reply_to |-> None]

Bodies(name) ==
    {json_dumps(to_dict(FoundMessage(name, "task", "pending"))),
     json_dumps(to_dict(FoundMessage(name, "status", "completed"))),
     json_dumps(Without(to_dict(FoundMessage(name, "task", "pending")), "title")),
     [kind |-> "array"],
     [kind |-> "garbage"]}

Entries ==
    {[name |-> n, body |-> b] : n \in FileNames, b \in UNION {Bodies(m) : m \in FileNames}}
        \cup {[name |-> "notes.txt", body |-> [kind |-> "garbage"]]}

Containers ==
    {c \in UNION {[1..k -> Entries] : k \in 0..(Cardinality(FileNames) + 1)} :
        /\ \A i, j \in DOMAIN c : c[i].name = c[j].name => i = j
        /\ \A i \in DOMAIN c : c[i].name \in FileNames => c[i].body \in Bodies(c[i].name)}

Filters == {None, "", "task"}
StatusFilters == {None, "pending"}

InitList ==
    /\ container \in Containers
    /\ folder \in (IF container = <<>> THEN BOOLEAN ELSE {TRUE})
    /\ drive = [a \in Agents |-> FALSE]
    /\ op = [a \in Agents |-> Idle]
    /\ prov = [n \in FileNames |-> <<>>]
    /\ faults = TRUE
    /\ Direct

NextList ==
    \/ \E t \in Filters, s \in StatusFilters, limit \in 1..MaxLimit :
            get_messages("agent-a", "get_messages", t, s, limit)
    \/ get_pending_tasks("agent-a")

SpecList == InitList /\ [][NextList]_vars

(***************************************************************************)
(* Properties of the listing.                                              *)
(***************************************************************************)
\* An entry that decodes: a JSON object with every required field.
Decodable(body) ==
    body.kind = "object" /\ RequiredFields \subseteq DOMAIN body.fields

Decoded(body) == from_dict(response_json(body).val).val

\* A filter argument other than None is a filter the caller supplied.
Passes(m, t, s) ==
    /\ t # None => m.message_type = t
    /\ s # None => m.status = s

\* C7: a listing call whose listing request was answered with an error
\* status ends by raising; it does not return a list.
C7_ListingErrorRaised ==
    \A a \in Agents :
        (/\ op[a].call \in ListCalls /\ op[a].pc = "done"
         /\ op[a].s_list \notin {0, 200}) =>
            op[a].ret.kind = "raised"

\* C8: every message a listing call returned has the message_type the
\* caller supplied, if it supplied one, and the status it supplied, if it
\* supplied one.
C8_FiltersHold ==
    \A a \in Agents :
        (/\ op[a].call \in ListCalls /\ op[a].pc = "done"
         /\ op[a].ret.kind = "list") =>
            \A i \in 1..Len(op[a].ret.msgs) :
                Passes(op[a].ret.msgs[i], op[a].ftype, op[a].fstatus)

\* The ".json" entries of a window of the folder that decode and pass the
\* filters, decoded, in the order of the window.
LimitThenFilter(window, t, s) ==
    LET keep == SelectSeq(window, LAMBDA e :
                    /\ EndsWith(e.name, ".json")
                    /\ Decodable(e.body)
                    /\ Passes(Decoded(e.body), t, s))
    IN  [i \in 1..Len(keep) |-> Decoded(keep[i].body)]

\* C9: a listing call all of whose requests were served has returned
\* exactly the decodable ".json" entries among the first `limit` entries of
\* the folder (most recently modified first) that pass the filters, in that
\* order; so it returned at most `limit` messages.
C9_LimitThenFilter ==
    \A a \in Agents :
        (/\ op[a].call \in ListCalls /\ op[a].pc = "done"
         /\ op[a].s_list = 200 /\ op[a].failed = {}) =>
            /\ op[a].ret.kind = "list"
            /\ op[a].ret.msgs =
                    LimitThenFilter(SubSeq(container, 1,
                                           Min(op[a].limit, Len(container))),
                                    op[a].ftype, op[a].fstatus)
            /\ Len(op[a].ret.msgs) <= op[a].limit

\* C9 without the two departures it inherits (C10: an entry that is JSON but
\* not an object; C8: an empty string as a filter): on every other folder
\* and call the result is limit-then-filter.
LimitThenFilterElsewhere ==
    \A a \in Agents :
        (/\ op[a].call \in ListCalls /\ op[a].pc = "done"
         /\ op[a].s_list = 200 /\ op[a].failed = {}
         /\ op[a].ftype # "" /\ op[a].fstatus # ""
         /\ \A i \in 1..Len(op[a].listed) :
                EndsWith(op[a].listed[i].name, ".json") =>
                    op[a].listed[i].body.kind \in {"object", "garbage"}) =>
            /\ op[a].ret.kind = "list"
            /\ op[a].ret.msgs =
                    LimitThenFilter(SubSeq(container, 1,
                                           Min(op[a].limit, Len(container))),
                                    op[a].ftype, op[a].fstatus)
            /\ Len(op[a].ret.msgs) <= op[a].limit

\* C10: a listing call whose listing was served has not raised, whatever
\* the listed entries hold, and has returned every listed ".json" entry that
\* was downloaded, decodes and passes the filters.
C10_DecodeIsolation ==
    \A a \in Agents :
        (/\ op[a].call \in ListCalls /\ op[a].pc = "done"
         /\ op[a].s_list = 200) =>
            /\ op[a].ret.kind = "list"
            /\ \A i \in 1..Len(op[a].listed) :
                LET e == op[a].listed[i] IN
                (/\ EndsWith(e.name, ".json") /\ i \notin op[a].failed
                 /\ Decodable(e.body)
                 /\ Passes(Decoded(e.body), op[a].ftype, op[a].fstatus)) =>
                    \E j \in 1..Len(op[a].ret.msgs) :
                        op[a].ret.msgs[j] = Decoded(e.body)

(***************************************************************************)
(* The built-in operations: one agent posts messages of every kind and     *)
(* lists the pending tasks while another claims and completes tasks and    *)
(* lists; their requests interleave and the store serves every one.        *)
(*  update_message_status is called by claim_task and    *)
(* complete_task only.                                                     *)
(***************************************************************************)
\* Bound of the model: writes the store accepts in one behaviour of the
\* built-in operations.
MaxBuiltinWrites == 2

Poster(a) ==
    \/ /\ Now < MaxBuiltinWrites
       /\ \/ post_message_plain(a, "Note", "FYI", Omitted, Omitted)
          \/ post_task(a, "Review", "Check X", Omitted, NoneDict)
          \/ post_handoff(a, "Take over", "Part 2", [step |-> 2], "agent-b")
          \/ \E id \in TaskIds : post_status(a, "Progress", "Half done", id)
    \/ get_pending_tasks(a)

Worker(a) ==
    \/ /\ Now < MaxBuiltinWrites
       /\ \/ \E id \in TaskIds : claim_task(a, id)
          \/ \E id \in TaskIds : complete_task(a, id, NoneDict)
          \/ update_put(a)
    \/ get_messages(a, "get_messages", "task", "pending", DefaultLimit)

NextBuiltin == Poster("agent-a") \/ Worker("agent-b")

SpecBuiltin == Init /\ [][NextBuiltin]_vars

(***************************************************************************)
(* Properties of the built-in operations.                                  *)
(***************************************************************************)
\* C11 (state part): get_pending_tasks issues the listing of
\* get_messages(message_type="task", status="pending") with the default
\* limit and returns what that call returns: the pending tasks among the
\* entries listed, and the same value as a get_messages call with these
\* arguments that was answered the same listing.
C11_SameAsGetMessages ==
    \A a \in Agents :
        (op[a].call = "get_pending_tasks" /\ op[a].pc = "done") =>
            /\ op[a].ftype = "task" /\ op[a].fstatus = "pending"
            /\ op[a].limit = DefaultLimit
            /\ op[a].s_list = 200 =>
                    op[a].ret = MsgList(LimitThenFilter(op[a].listed, "task", "pending"))
            /\ \A b \in Agents :
                (/\ op[b].call = "get_messages" /\ op[b].pc = "done"
                 /\ op[b].ftype = "task" /\ op[b].fstatus = "pending"
                 /\ op[b].limit = DefaultLimit
                 /\ op[b].s_list = op[a].s_list
                 /\ op[b].listed = op[a].listed) =>
                    op[b].ret = op[a].ret

\* C11 (step part): a get_pending_tasks call made when a message is stored
\* with a status other than "pending" (a task claimed or completed and not
\* set back) returns a list that does not contain that message.
C11_NotPendingNotListed ==
    \A a \in Agents :
        (/\ op'[a] # op[a]
         /\ op'[a].call = "get_pending_tasks"
         /\ op'[a].ret.kind = "list") =>
            \A n \in Names(container) :
                Stored(n).status # "pending" =>
                    \A j \in 1..Len(op'[a].ret.msgs) :
                        op'[a].ret.msgs[j].id # Stored(n).id

\* C11: get_pending_tasks() returns exactly what get_messages(message_type=
\* "task", status="pending") returns with the default limit, and once a task
\* has been claimed or completed (and not set back to pending) no later
\* get_pending_tasks result contains it.
C11_PendingTasks == [] C11_SameAsGetMessages /\ [][C11_NotPendingNotListed]_vars

\* C11, its case: a posted task was claimed, and a get_pending_tasks call
\* made after the claim was listed that task and returned no message.
C11_Witness ==
    \E a, b \in Agents :
        /\ op[a].call = "get_pending_tasks" /\ op[a].pc = "done"
        /\ op[b].call = "claim_task" /\ op[b].pc = "done" /\ op[b].wrote = 2
        /\ op[a].at = 2
        /\ Len(op[a].listed) = 1
        /\ op[a].listed[1].name = op[b].name
        /\ Stored(op[b].name).status = "in_progress"
        /\ op[a].ret = MsgList(<<>>)

\* C13: whatever the built-in operations (the four posts, claim_task,
\* complete_task, the listings) have done, in any order and interleaving,
\* every stored message, and every message about to be written back, has
\* status pending, in_progress or completed; none has status "failed".
C13_NoFailedStatus ==
    /\ \A n \in Names(container) :
            Stored(n).status \in {"pending", "in_progress", "completed"}
    /\ \A a \in Agents :
            op[a].work.kind = "msg" =>
                op[a].work.msg.status \in {"pending", "in_progress", "completed"}

\* C13, its case: a task completed straight from pending, by the agent that
\* did not post it.
C13_Witness ==
    \E n \in Names(container) :
        /\ Stored(n).message_type = "task" /\ Stored(n).status = "completed"
        /\ Stored(n).context.completed_by # Stored(n).agent_id

\* C16: every call that has written to the store (a post or a status
\* update that issued its PUT) has issued an ensure-container request
\* before, and that request was answered Created or AlreadyExists.
C16_EnsureBeforeWrite ==
    \A a \in Agents :
        (/\ op[a].call \in PostCalls \cup UpdateCalls /\ op[a].pc = "done"
         /\ op[a].nput >= 1) =>
            op[a].s_ensure \in {201, 409}

(***************************************************************************)
(* The post operations with the arguments callers may give or leave out:   *)
(* one agent posts messages of every kind, another posts tasks; the store  *)
(* serves every request.                                                   *)
(***************************************************************************)
MessageTypes == {Omitted, "task", "query"}
Priorities == {Omitted, "high"}
Contexts == {NoneDict, [step |-> 2]}

\* Ids passed as task_id to post_status: none, the first id, an id that is
\* never stored.
StatusRefs == {None, "msg-0a1b2c3d4e5f", "msg-ffffffffffff"}

HandoffContexts == {<<>>, [step |-> 2], [target_agent |-> "agent-a"]}
Targets == {None, "", "agent-b"}

\* Bound of the model: posts the store accepts in one behaviour of the post
\* operations.
MaxPosts == 2

Posts(a) ==
    \/ /\ Now < MaxPosts
       /\ \E mt \in MessageTypes, pr \in Priorities :
            post_message_plain(a, "Note", "FYI", mt, pr)
    \/ /\ Now < MaxPosts
       /\ \E pr \in Priorities, c \in Contexts :
            post_task(a, "Review", "Check X", pr, c)
    \/ /\ Now < MaxPosts
       /\ \E t \in StatusRefs : post_status(a, "Progress", "Half done", t)
    \/ /\ Now < MaxPosts
       /\ \E c \in HandoffContexts, t \in Targets :
            post_handoff(a, "Take over", "Part 2", c, t)

NextPosts ==
    \/ Posts("agent-a")
    \/ /\ Now < MaxPosts
       /\ post_task("agent-b", "Review", "Check X", Omitted, NoneDict)

SpecPosts == Init /\ [][NextPosts]_vars

(***************************************************************************)
(* Properties of the post operations.                                      *)
(***************************************************************************)
\* The message a post call returned is the one stored, as long as no later
\* write replaced it.
StoredAsReturned(a) ==
    /\ op[a].name = op[a].ret.msg.id \o ".json"
    /\ op[a].wrote >= 1
    /\ Made(a, op[a].name, Len(prov[op[a].name])) =>
            Stored(op[a].name) = op[a].ret.msg

\* C17: every message a post operation created has status pending if and
\* only if its message_type is task, and status completed otherwise;
\* post_message called without message_type creates a message of type
\* "message" with status completed.
C17_CreationStatus ==
    \A a \in Agents :
        (op[a].call \in PostCalls /\ op[a].pc = "done" /\ op[a].ret.kind = "msg") =>
            LET m == op[a].ret.msg IN
            /\ m.status = "pending" <=> m.message_type = "task"
            /\ m.message_type # "task" => m.status = "completed"
            /\ (op[a].call = "post_message" /\ op[a].args.message_type = Omitted) =>
                    m.message_type = "message" /\ m.status = "completed"
            /\ StoredAsReturned(a)

\* C17, its case: post_message was called without message_type and the
\* message is stored with type "message" and status completed.
C17_Witness ==
    \E a \in Agents :
        /\ op[a].call = "post_message" /\ op[a].pc = "done"
        /\ op[a].args.message_type = Omitted
        /\ op[a].ret.kind = "msg"
        /\ Stored(op[a].name).message_type = "message"
        /\ Stored(op[a].name).status = "completed"

HexDigits ==
    {"0", "1", "2", "3", "4", "5", "6", "7", "8", "9", "a", "b", "c", "d", "e", "f"}

\* msg-<12 lowercase hex chars>
IsMessageId(id) ==
    /\ Len(id) = 16
    /\ SubSeq(id, 1, 4) = "msg-"
    /\ \A i \in 5..16 : SubSeq(id, i, i) \in HexDigits

\* C18: the message post_task returned has message_type task, status
\* pending, agent_id the posting agent, priority the one supplied, or normal
\* when none was supplied, and an id of the form msg-<12 lowercase hex
\* chars>; it is stored under <id>.json.
C18_PostTask ==
    \A a \in Agents :
        (op[a].call = "post_task" /\ op[a].pc = "done" /\ op[a].ret.kind = "msg") =>
            LET m == op[a].ret.msg IN
            /\ m.message_type = "task"
            /\ m.status = "pending"
            /\ m.agent_id = a
            /\ m.priority = IF op[a].args.priority = Omitted THEN "normal"
                            ELSE op[a].args.priority
            /\ IsMessageId(m.id)
            /\ StoredAsReturned(a)

\* C18, its case: a task posted with priority "high" and a context, after
\* the other agent posted one with neither.
C18_Witness ==
    /\ op["agent-a"].call = "post_task" /\ op["agent-a"].pc = "done"
    /\ op["agent-a"].args.priority = "high"
    /\ op["agent-a"].patch = [step |-> 2]
    /\ op["agent-a"].ret.kind = "msg"
    /\ Stored(op["agent-a"].name).priority = "high"
    /\ Stored(op["agent-a"].name).agent_id = "agent-a"
    /\ op["agent-b"].call = "post_task" /\ op["agent-b"].pc = "done"
    /\ op["agent-b"].name # op["agent-a"].name
    /\ Stored(op["agent-b"].name).priority = "normal"

\* The caller's context with key target_agent set to t.
WithTarget(context, t) ==
    [k \in DOMAIN context \cup {"target_agent"} |->
        IF k = "target_agent" THEN t ELSE context[k]]

\* C19: the message post_handoff created has message_type handoff and
\* priority high; its context is the caller's context with target_agent set
\* to the target when the caller supplied one, and the caller's context
\* otherwise; the caller's map is as the caller passed it.
C19_Handoff ==
    \A a \in Agents :
        (op[a].call = "post_handoff" /\ op[a].pc = "done" /\ op[a].ret.kind = "msg") =>
            LET m == op[a].ret.msg IN
            /\ m.message_type = "handoff"
            /\ m.priority = "high"
            /\ m.context = IF op[a].args.target_agent # None
                           THEN WithTarget(op[a].patch, op[a].args.target_agent)
                           ELSE op[a].patch
            /\ op[a].given = op[a].patch

\* C19 for every target but the empty string.
HandoffElsewhere ==
    \A a \in Agents :
        (/\ op[a].call = "post_handoff" /\ op[a].pc = "done"
         /\ op[a].ret.kind = "msg"
         /\ op[a].args.target_agent # "") =>
            LET m == op[a].ret.msg IN
            /\ m.message_type = "handoff"
            /\ m.priority = "high"
            /\ m.context = IF op[a].args.target_agent # None
                           THEN WithTarget(op[a].patch, op[a].args.target_agent)
                           ELSE op[a].patch
            /\ op[a].given = op[a].patch

\* C20 (state part): post_status has returned a message of type status with
\* status completed and in_reply_to = the task id given; it issued no GET
\* and no listing, only its one PUT.
C20_StatusMessage ==
    \A a \in Agents :
        (op[a].call = "post_status" /\ op[a].pc = "done") =>
            /\ op[a].ret.kind = "msg"
            /\ op[a].ret.msg.message_type = "status"
            /\ op[a].ret.msg.status = "completed"
            /\ op[a].ret.msg.in_reply_to = op[a].args.task_id
            /\ op[a].s_get = 0 /\ op[a].s_list = 0 /\ op[a].nput = 1
            /\ StoredAsReturned(a)

\* C20 (step part): the step of post_status changes no file but the one of
\* the message it creates.
C20_OthersUntouched ==
    \A a \in Agents :
        (op'[a] # op[a] /\ op'[a].call = "post_status") =>
            \A n \in Names(container) :
                n # op'[a].name =>
                    /\ n \in Names(container')
                    /\ Body(container', n) = Body(container, n)

\* C20: post_status creates a message with message_type status, status
\* completed and in_reply_to = task_id, whether or not a message with that
\* id is stored: it looks nothing up and does not modify the message
\* referred to.
C20_PostStatus == [] C20_StatusMessage /\ [][C20_OthersUntouched]_vars

\* C20, its case: a status message refers to an id under which nothing is
\* stored, while a task is stored under another id.
C20_Witness ==
    \E a \in Agents :
        /\ op[a].call = "post_status" /\ op[a].pc = "done"
        /\ op[a].args.task_id = "msg-ffffffffffff"
        /\ FileName(op[a].args.task_id) \notin Names(container)
        /\ Stored(op[a].name).in_reply_to = "msg-ffffffffffff"
        /\ Len(container) = 2

(***************************************************************************)
(* Status updates: one agent posts a task, claims it and sets statuses and *)
(* context patches of its choice with update_message_status; another       *)
(* claims and completes; their requests interleave and the store serves    *)
(* every one.                                                              *)
(***************************************************************************)
Statuses == {"pending", "failed", "archived"}
Patches == {NoneDict, <<>>, [meta |-> [y |-> 2]]}

Owner(a) ==
    \/ post_task(a, "Review", "Check X", Omitted, [meta |-> [x |-> 1]])
    \/ \E id \in TaskIds : claim_task(a, id)
    \/ \E id \in TaskIds, st \in Statuses, cu \in Patches :
            update_message_status(a, id, st, cu)
    \/ update_put(a)

Other(a) ==
    \/ \E id \in TaskIds : claim_task(a, id)
    \/ \E id \in TaskIds : complete_task(a, id, NoneDict)
    \/ update_put(a)

NextUpdate == Owner("agent-a") \/ Other("agent-b")

SpecUpdate == Init /\ [][NextUpdate]_vars

(***************************************************************************)
(* Properties of the status updates.                                       *)
(***************************************************************************)
\* Agent a's last call wrote the file it names and no write followed.
MadeLast(a) == Made(a, op[a].name, Len(prov[op[a].name]))

\* C12: an update call that found its message, whatever the status it read
\* and whatever the status requested, has returned the message with the
\* requested status and stored it; a claim stored the claimant as
\* claimed_by, replacing any earlier one.
C12_NoTransitionRejected ==
    \A a \in Agents :
        (op[a].call \in UpdateCalls /\ op[a].pc = "done" /\ op[a].s_get = 200) =>
            /\ op[a].ret.kind = "msg"
            /\ op[a].ret.msg.status = op[a].status
            /\ op[a].s_put \in {200, 201} /\ op[a].wrote >= 1
            /\ MadeLast(a) =>
                /\ Stored(op[a].name).status = op[a].status
                /\ op[a].call = "claim_task" =>
                        HasKey(Stored(op[a].name).context, "claimed_by", a)

\* C12, its case: a claim of a task that was read as completed put it back
\* to in_progress.
C12_Witness ==
    \E a \in Agents :
        /\ op[a].call = "claim_task" /\ MadeLast(a)
        /\ op[a].read.kind = "msg"
        /\ op[a].read.msg.status = "completed"
        /\ Stored(op[a].name).status = "in_progress"

\* C12, further cases: a task completed straight from pending; a task
\* claimed by one agent while in progress for the other; a status outside
\* the declared ones stored.
SkippedInProgress ==
    \E a \in Agents :
        /\ op[a].call = "complete_task" /\ MadeLast(a)
        /\ op[a].read.kind = "msg"
        /\ op[a].read.msg.status = "pending"
        /\ Stored(op[a].name).status = "completed"

SecondClaim ==
    \E a \in Agents :
        /\ op[a].call = "claim_task" /\ MadeLast(a)
        /\ op[a].read.kind = "msg"
        /\ op[a].read.msg.status = "in_progress"
        /\ "claimed_by" \in DOMAIN op[a].read.msg.context
        /\ op[a].read.msg.context.claimed_by # a
        /\ Stored(op[a].name).context.claimed_by = a

UndeclaredStatus ==
    \E a \in Agents :
        /\ op[a].call = "update_message_status" /\ MadeLast(a)
        /\ op[a].read.kind = "msg"
        /\ op[a].read.msg.status = "completed"
        /\ Stored(op[a].name).status = "archived"

FrameFields ==
    {"id", "agent_id", "message_type", "title", "content", "priority", "in_reply_to"}

\* C14: the object an update call writes back (and returns) has the id,
\* agent_id, message_type, title, content, priority and in_reply_to of the
\* object it read, and the time of the update as timestamp; that object is
\* what is stored.
C14_Frame ==
    \A a \in Agents :
        (/\ op[a].call \in UpdateCalls
         /\ op[a].read.kind = "msg"
         /\ op[a].work.kind = "msg" \/ op[a].ret.kind = "msg") =>
            LET r == op[a].read.msg
                w == IF op[a].work.kind = "msg" THEN op[a].work.msg
                     ELSE op[a].ret.msg
            IN  /\ \A f \in FrameFields : w[f] = r[f]
                /\ w.timestamp = op[a].at
                /\ DOMAIN w = DOMAIN r
                /\ MadeLast(a) => Stored(op[a].name) = w

\* C14, its case: a task posted by one agent was claimed by the other; it
\* is stored with the poster as agent_id, the claimant in the context and
\* a later timestamp.
C14_Witness ==
    \E a \in Agents :
        /\ op[a].call = "claim_task" /\ MadeLast(a)
        /\ op[a].read.kind = "msg"
        /\ Stored(op[a].name).agent_id # a
        /\ Stored(op[a].name).context.claimed_by = a
        /\ Stored(op[a].name).timestamp > op[a].read.msg.timestamp

\* C15: after an update that no other write came between (it wrote the
\* version after the one it read), the stored context maps every key of the
\* patch to the patch's value and every other key to the value read; its
\* keys are those read and those of the patch; without a patch, or with an
\* empty one, it is the context read.
C15_ShallowMerge ==
    \A a \in Agents :
        (/\ op[a].call \in UpdateCalls /\ MadeLast(a)
         /\ op[a].wrote = op[a].base + 1) =>
            LET old == op[a].read.msg.context
                new == Stored(op[a].name).context
                patch == op[a].patch
            IN  IF patch = NoneDict \/ DOMAIN patch = {}
                THEN new = old
                ELSE /\ DOMAIN new = DOMAIN old \cup DOMAIN patch
                     /\ \A k \in DOMAIN patch : new[k] = patch[k]
                     /\ \A k \in DOMAIN old \ DOMAIN patch : new[k] = old[k]

\* C15, its case: a patch with a nested map under a key the stored context
\* holds another nested map under: the patch's map replaces it, the claim's
\* keys stay.
C15_Witness ==
    \E a \in Agents :
        /\ op[a].call = "update_message_status" /\ MadeLast(a)
        /\ op[a].wrote = op[a].base + 1
        /\ op[a].read.kind = "msg"
        /\ op[a].patch = [meta |-> [y |-> 2]]
        /\ op[a].read.msg.context.meta = [x |-> 1]
        /\ "claimed_by" \in DOMAIN op[a].read.msg.context
        /\ Stored(op[a].name).context.meta = [y |-> 2]
        /\ "claimed_by" \in DOMAIN Stored(op[a].name).context

(***************************************************************************)
(* Reading by id, and the store as a whole: one agent posts and updates,   *)
(* the other posts too and reads by id and by listing; the store serves    *)
(* every request.                                                          *)
(***************************************************************************)
\* The call get_message(message_id) of a caller: one GET of the file.
get_message_call(a, message_id) ==
    /\ op[a].pc # "fetched"
    /\ UNCHANGED <<container, folder, prov, faults, outside>>
    /\ \E sd \in DriveAnswers(a), served \in Answers :
        LET filename == FileName(message_id)
            got == get_message(message_id, served)
            call0 == [Idle EXCEPT !.call = "get_message", !.pc = "done",
                         !.mid = message_id, !.name = filename, !.at = Now,
                         !.s_drive = sd]
            call1 == [call0 EXCEPT !.existed = filename \in Names(container),
                         !.base = Len(Writes(filename)),
                         !.s_get = GetStatus(filename, served)]
        IN  IF sd = 503
            THEN /\ op' = [op EXCEPT ![a] = [call0 EXCEPT !.ret = Raised("RuntimeError")]]
                 /\ UNCHANGED drive
            ELSE /\ drive' = [drive EXCEPT ![a] = TRUE]
                 /\ op' = [op EXCEPT ![a] =
                        [call1 EXCEPT !.ret = IF got.exc # "" THEN Raised(got.exc)
                                              ELSE got.val]]

\* Ids the callers pass: those of the files the posts can create, and one
\* of no file.
MessageIds == {"msg-" \o h : h \in Hexes} \cup {"msg-ffffffffffff"}

Author(a) ==
    \/ post_task(a, "Review", "Check X", Omitted, NoneDict)
    \/ \E id \in TaskIds : claim_task(a, id)
    \/ update_put(a)

Reader(a) ==
    \/ post_message_plain(a, "Note", "FYI", Omitted, Omitted)
    \/ \E id \in MessageIds : get_message_call(a, id)
    \/ \E limit \in 1..MaxLimit : get_messages(a, "get_messages", None, None, limit)
    \/ get_pending_tasks(a)

NextStore == Author("agent-a") \/ Reader("agent-b")

SpecStore == Init /\ [][NextStore]_vars

(***************************************************************************)
(* Properties of the store.                                                *)
(***************************************************************************)
ReadCalls == ListCalls \cup {"get_message"}

\* C21: a get_message call that got to the store issued one GET, of the
\* file <id>.json, and no listing, folder creation or PUT; it returned the
\* message that file holds when the file exists, wherever it stands in the
\* folder (the file as stored until the next write), and the absent result
\* when it does not.
C21_GetMessage ==
    \A a \in Agents :
        (op[a].call = "get_message" /\ op[a].pc = "done") =>
            /\ op[a].name = op[a].mid \o ".json"
            /\ op[a].s_get \in {200, 404}
            /\ op[a].s_list = 0 /\ op[a].s_ensure = 0
            /\ op[a].s_put = 0 /\ op[a].nput = 0 /\ op[a].wrote = 0
            /\ op[a].existed =>
                    /\ op[a].ret.kind = "msg"
                    /\ op[a].ret.msg.id = op[a].mid
                    /\ Len(Writes(op[a].name)) = op[a].base =>
                            op[a].ret.msg = Stored(op[a].name)
            /\ ~op[a].existed => op[a].ret = NoMsg

\* C21, its case: the file read is not the most recently modified one of
\* the folder, so a listing with limit 1 does not reach it.
C21_Witness ==
    \E a \in Agents :
        /\ op[a].call = "get_message" /\ op[a].pc = "done"
        /\ op[a].ret.kind = "msg"
        /\ Len(Writes(op[a].name)) = op[a].base
        /\ Len(container) >= 2
        /\ container[Len(container)].name = op[a].name

\* The files of folder c other than those named in S, with their contents.
Others(c, S) == {[name |-> n, body |-> Body(c, n)] : n \in Names(c) \ S}

\* C22, as a step: no file leaves the folder; a read call leaves the folder
\* as it is; a post changes no file but <id>.json of the message it made; a
\* status update changes no file but the one it read, creates none, and
\* what it writes is the whole object it returns.
C22_Step ==
    /\ Names(container) \subseteq Names(container')
    /\ \A a \in Agents :
        op'[a] # op[a] =>
            /\ op'[a].call \in ReadCalls =>
                    container' = container /\ prov' = prov
            /\ op'[a].call \in PostCalls =>
                    /\ Others(container', {op'[a].mid \o ".json"})
                            = Others(container, {op'[a].mid \o ".json"})
                    /\ op'[a].ret.kind = "msg" => op'[a].ret.msg.id = op'[a].mid
            /\ op'[a].call \in UpdateCalls =>
                    /\ Names(container') = Names(container)
                    /\ Others(container', {op'[a].name})
                            = Others(container, {op'[a].name})
                    /\ op'[a].read.kind = "msg" =>
                            op'[a].name = op'[a].read.msg.id \o ".json"
                    /\ container' # container =>
                            Body(container', op'[a].name)
                                = json_dumps(to_dict(op'[a].ret.msg))

\* C22: in every interleaving of the calls, the set of files never shrinks,
\* reads change nothing, a post writes only the file of its message and a
\* status update only overwrites, as a whole object, the file it read.
C22_MutationDiscipline == [][C22_Step]_vars

\* C22, its case: two files are stored, a status update wrote one of them
\* last and a read call has returned.
C22_Witness ==
    /\ Cardinality(Names(container)) = 2
    /\ \E a \in Agents : op[a].call \in UpdateCalls /\ MadeLast(a)
    /\ \E a \in Agents : op[a].call \in ReadCalls /\ op[a].pc = "done"

\* C30: a post whose generated id is that of a stored message issued no GET
\* and no listing, was answered 200 to its one PUT and returned its
\* message; the file then holds the new message, with the new creator,
\* status and context.
C30_CollisionOverwrites ==
    \A a \in Agents :
        (op[a].call \in PostCalls /\ op[a].pc = "done" /\ op[a].existed) =>
            /\ op[a].s_get = 0 /\ op[a].s_list = 0
            /\ op[a].s_put = 200 /\ op[a].nput = 1
            /\ op[a].ret.kind = "msg"
            /\ op[a].ret.msg.agent_id = a
            /\ MadeLast(a) => Stored(op[a].name) = op[a].ret.msg

\* C30, its case: a task posted and claimed by one agent was overwritten
\* by the other agent's post: the claim is gone from the stored record.
C30_Witness ==
    \E a \in Agents :
        /\ op[a].call \in PostCalls /\ MadeLast(a) /\ op[a].existed
        /\ op[a].wrote = 3
        /\ prov[op[a].name][2].call = "claim_task"
        /\ prov[op[a].name][2].by # a
        /\ Stored(op[a].name).agent_id = a
        /\ Stored(op[a].name).status = "completed"
        /\ "claimed_by" \notin DOMAIN Stored(op[a].name).context

OptionalFields == {"priority", "status", "context", "in_reply_to"}

Restrict(d, S) == [k \in S |-> d[k]]

\* A message none of whose optional fields has the value of its default.
FullDict(name, message_type) ==
    to_dict([FoundMessage(name, message_type, "in_progress") EXCEPT
                !.priority = "high", !.context = [step |-> 2],
                !.in_reply_to = "msg-ffffffffffff"])

DecodeBodies(name) ==
    {json_dumps(Restrict(FullDict(name, t), (RequiredFields \ missing) \cup O)) :
        t \in {"task", "status"}, O \in SUBSET OptionalFields,
        missing \in {{}} \cup {{f} : f \in RequiredFields}}

InitDecode ==
    /\ container \in UNION {{<<[name |-> FileName(id), body |-> b]>> :
                                b \in DecodeBodies(FileName(id))} : id \in TaskIds}
    /\ folder = TRUE
    /\ drive = [a \in Agents |-> FALSE]
    /\ op = [a \in Agents |-> Idle]
    /\ prov = [n \in FileNames |-> <<>>]
    /\ faults = FALSE
    /\ Direct

NextDecode ==
    \/ \E id \in TaskIds : get_message_call("agent-a", id)
    \/ get_messages("agent-a", "get_messages", None, None, DefaultLimit)
    \/ get_pending_tasks("agent-b")

SpecDecode == InitDecode /\ [][NextDecode]_vars

Defaults ==
    [priority |-> "normal", status |-> "pending", context |-> <<>>,
     in_reply_to |-> None]

\* The message an object with every required field stands for.
Tolerant(d) ==
    [f \in RequiredFields \cup OptionalFields |->
        IF f \in DOMAIN d THEN d[f] ELSE Defaults[f]]

\* C28: reading by id a file that holds an object returns a message when
\* the object has the six required fields: the object's value for every
\* field present and, for every optional field absent, priority "normal",
\* status "pending" whatever the message_type, context {} and in_reply_to
\* none; the read raises (KeyError) exactly when a required field is
\* missing.  A listing returns that message, or nothing for that file.
C28_TolerantDecoding ==
    \A a \in Agents :
        (op[a].pc = "done" /\ op[a].call \in ReadCalls) =>
            LET d == container[1].body.fields
                complete == RequiredFields \subseteq DOMAIN d
            IN  /\ op[a].call = "get_message" =>
                    /\ complete => op[a].ret = Msg(Tolerant(d))
                    /\ ~complete => op[a].ret = Raised("KeyError")
                /\ op[a].call = "get_messages" =>
                    /\ complete => op[a].ret = MsgList(<<Tolerant(d)>>)
                    /\ ~complete => op[a].ret = MsgList(<<>>)

\* C28, its case: an object with the required fields only, of type status,
\* was read as a message with status "pending".
C28_Witness ==
    /\ DOMAIN container[1].body.fields = RequiredFields
    /\ op["agent-a"].call = "get_message"
    /\ op["agent-a"].ret.kind = "msg"
    /\ op["agent-a"].ret.msg.message_type = "status"
    /\ op["agent-a"].ret.msg.status = "pending"
    /\ op["agent-a"].ret.msg.context = <<>>

(***************************************************************************)
(* M365Auth (auth.py): the token of an orchestrator instance.  The         *)
(* identity provider grants some of the acquisition flows and refuses the  *)
(* others; a token it issued expires at a time of its choosing.            *)
(***************************************************************************)
AZURE_CLI_APP_ID == "04b07795-8ddb-461a-bbee-02f9e1bf7b46"
GRAPH_CLI_APP_ID == "14d82eec-204b-4c2f-b7e8-296a70dab67e"

AuthConfig(tenant_id, username, password, client_id, client_secret) ==
    [tenant_id |-> tenant_id, username |-> username, password |-> password,
     client_id |-> client_id, client_secret |-> client_secret]

\* One acquisition attempted at the identity provider.
Attempt(flow, client_id) == [flow |-> flow, client_id |-> client_id]

\* The outcome of a _try_ method: the attempts it made, and whether it
\* returned a TokenResult (ok) or None.
Skipped == [tried |-> <<>>, ok |-> FALSE]
Tried(t, grants) == [tried |-> <<t>>, ok |-> t \in grants]

try_ropc(config, client_id, grants) ==
    IF ~Truthy(config.username) \/ ~Truthy(config.password) THEN Skipped
    ELSE Tried(Attempt("ropc", client_id), grants)

try_client_credentials(config, grants) ==
    IF ~Truthy(config.client_id) \/ ~Truthy(config.client_secret) THEN Skipped
    ELSE Tried(Attempt("client_credentials", config.client_id), grants)

try_device_code(client_id, grants) == Tried(Attempt("device_code", client_id), grants)

\* The loop of authenticate over client_ids_to_try, from the i-th id on.
RECURSIVE TryEach(_, _, _, _, _)
TryEach(config, client_ids, i, grants, tried) ==
    IF i > Len(client_ids) THEN [tried |-> tried, ok |-> FALSE]
    ELSE LET result == try_ropc(config, client_ids[i], grants) IN
         IF result.ok THEN [tried |-> tried \o result.tried, ok |-> TRUE]
         ELSE TryEach(config, client_ids, i + 1, grants, tried \o result.tried)

\* Variant of authenticate that falls back to the device code flow whatever
\* allow_interactive says.
authenticate_interactive(config, allow_interactive, grants) ==
    LET cc == IF Truthy(config.client_id) /\ Truthy(config.client_secret)
              THEN try_client_credentials(config, grants) ELSE Skipped
        client_ids_to_try ==
            (IF Truthy(config.client_id) THEN <<config.client_id>> ELSE <<>>)
                \o <<AZURE_CLI_APP_ID, GRAPH_CLI_APP_ID>>
        ropc == TryEach(config, client_ids_to_try, 1, grants, cc.tried)
        device == try_device_code(AZURE_CLI_APP_ID, grants)
    IN  IF cc.ok THEN cc
        ELSE IF ropc.ok THEN ropc
        ELSE [tried |-> ropc.tried \o device.tried, ok |-> device.ok]

\* authenticate: the attempts it makes, in order, and whether the last one
\* gave the token it returns (ok) or it raises RuntimeError.
authenticate_flows(config, allow_interactive, grants) ==
    LET cc == IF Truthy(config.client_id) /\ Truthy(config.client_secret)
              THEN try_client_credentials(config, grants) ELSE Skipped
        client_ids_to_try ==
            (IF Truthy(config.client_id) THEN <<config.client_id>> ELSE <<>>)
                \o <<AZURE_CLI_APP_ID, GRAPH_CLI_APP_ID>>
        ropc == TryEach(config, client_ids_to_try, 1, grants, cc.tried)
        device == try_device_code(AZURE_CLI_APP_ID, grants)
    IN  IF cc.ok THEN cc
        ELSE IF ropc.ok THEN ropc
        ELSE IF allow_interactive
             THEN [tried |-> ropc.tried \o device.tried, ok |-> device.ok]
        ELSE [tried |-> ropc.tried, ok |-> FALSE]

\* The instance after authenticate(allow_interactive); serial: the
\* access_token the provider issues if it grants a flow.
Authenticate(inst, allow_interactive, serial) ==
    LET r == authenticate_flows(inst.config, allow_interactive, idp.grants)
        token == [access_token |-> serial, by |-> r.tried[Len(r.tried)]]
    IN  [inst EXCEPT !.tried = @ \o r.tried,
                     !.mark = Len(inst.tried),
                     !.cached = IF r.ok THEN token ELSE @,
                     !.ret = IF r.ok THEN Return(token) ELSE Raise("RuntimeError")]

\* Variant of get_token that authenticates again when the cached token has
\* expired.
GetTokenRefreshing(inst, serial) ==
    LET after == IF inst.cached = NoToken \/ inst.cached.access_token \in idp.expired
                 THEN Authenticate(inst, TRUE, serial)
                 ELSE [inst EXCEPT !.mark = Len(inst.tried)]
    IN  [after EXCEPT !.ret = IF after.cached = NoToken THEN Raise("RuntimeError")
                              ELSE Return(after.cached.access_token)]

\* The instance after get_token(): authenticate() if no token is cached,
\* then the cached token's access_token.
GetToken(inst, serial) ==
    LET after == IF inst.cached = NoToken
                 THEN Authenticate(inst, TRUE, serial)
                 ELSE [inst EXCEPT !.mark = Len(inst.tried)]
    IN  [after EXCEPT !.ret = IF after.cached = NoToken THEN Raise("RuntimeError")
                              ELSE Return(after.cached.access_token)]

\* Bound of the model: calls on one M365Auth instance.
MaxAuthCalls == 3

\* The identity provider after a call that left the instance as inst.
Issued(before, inst) ==
    [idp EXCEPT !.issued = IF inst.cached # before.cached THEN @ + 1 ELSE @]

Called(inst, call, allow_interactive) ==
    [inst EXCEPT !.call = call, !.allow = allow_interactive, !.ncalls = @ + 1]

\* authenticate is called on an instance that holds no token: by
\* AgentCollaboration.__init__ and by get_token.
authenticate(a, allow_interactive) ==
    /\ auth[a].cached = NoToken /\ auth[a].ncalls < MaxAuthCalls
    /\ LET inst == Authenticate(auth[a], allow_interactive, idp.issued + 1) IN
        /\ auth' = [auth EXCEPT ![a] = Called(inst, "authenticate", allow_interactive)]
        /\ idp' = Issued(auth[a], inst)
    /\ UNCHANGED <<container, folder, drive, op, prov, faults, environ, run>>

get_token(a) ==
    /\ auth[a].ncalls < MaxAuthCalls
    /\ LET inst == GetToken(auth[a], idp.issued + 1) IN
        /\ auth' = [auth EXCEPT ![a] = Called(inst, "get_token", TRUE)]
        /\ idp' = Issued(auth[a], inst)
    /\ UNCHANGED <<container, folder, drive, op, prov, faults, environ, run>>

\* _request of the orchestrator: get_token for the Authorization header,
\* then one HTTP request, answered 401 when the token has expired.
request(a) ==
    /\ auth[a].ncalls < MaxAuthCalls
    /\ LET inst == GetToken(auth[a], idp.issued + 1)
           status == IF inst.ret.val \in idp.expired THEN 401 ELSE 200
       IN
        /\ auth' = [auth EXCEPT ![a] =
                IF inst.ret.exc # "" THEN Called(inst, "_request", TRUE)
                ELSE [Called(inst, "_request", TRUE) EXCEPT
                        !.sent = Append(@, [bearer |-> inst.ret.val,
                                            status |-> status]),
                        !.ret = Return(status)]]
        /\ idp' = Issued(auth[a], inst)
    /\ UNCHANGED <<container, folder, drive, op, prov, faults, environ, run>>

\* A token the provider issued reaches the end of its lifetime.
expire ==
    /\ \E n \in 1..idp.issued :
        /\ n \notin idp.expired
        /\ idp' = [idp EXCEPT !.expired = @ \cup {n}]
    /\ UNCHANGED <<container, folder, drive, op, prov, faults, environ, auth, run>>

Configs ==
    {AuthConfig("tenant", u.username, u.password, client_id, client_secret) :
        u \in {[username |-> None, password |-> None],
               [username |-> "user", password |-> "pw"]},
        client_id \in {None, "app-id"}, client_secret \in {None, "s3cret"}}

Flows(config) ==
    {Attempt("client_credentials", config.client_id),
     Attempt("ropc", config.client_id), Attempt("ropc", AZURE_CLI_APP_ID),
     Attempt("ropc", GRAPH_CLI_APP_ID), Attempt("device_code", AZURE_CLI_APP_ID)}

InitAuth ==
    /\ container = <<>>
    /\ folder = FALSE
    /\ drive = [a \in Agents |-> FALSE]
    /\ op = [a \in Agents |-> Idle]
    /\ prov = [n \in FileNames |-> <<>>]
    /\ faults = FALSE
    /\ environ = [os |-> <<>>, dotenv |-> <<>>]
    /\ run = [a \in Agents |-> NoRun]
    /\ \E config \in Configs :
        /\ auth = [a \in Agents |-> M365Auth(config)]
        /\ idp \in {[grants |-> g, issued |-> 0, expired |-> {}] :
                        g \in SUBSET Flows(config)}

NextAuth ==
    \/ \E allow_interactive \in BOOLEAN : authenticate("agent-a", allow_interactive)
    \/ get_token("agent-a")
    \/ request("agent-a")
    \/ expire

SpecAuth == InitAuth /\ [][NextAuth]_vars

(***************************************************************************)
(* Properties of the token.                                                *)
(***************************************************************************)
\* C25, as a step: a call on an instance that holds a token leaves the token
\* and the acquisitions attempted as they were, whether the token has
\* expired or not; get_token returns that token; _request sends one request
\* with it, answered 401 once it has expired, and returns that answer.
C25_Step ==
    \A a \in Agents :
        (auth[a].cached # NoToken /\ auth'[a] # auth[a]) =>
            LET token == auth[a].cached.access_token IN
            /\ auth'[a].cached = auth[a].cached
            /\ auth'[a].tried = auth[a].tried
            /\ idp'.issued = idp.issued
            /\ auth'[a].call \in {"get_token", "_request"}
            /\ auth'[a].call = "get_token" => auth'[a].ret = Return(token)
            /\ auth'[a].call = "_request" =>
                LET status == IF token \in idp.expired THEN 401 ELSE 200 IN
                /\ auth'[a].sent = Append(auth[a].sent,
                                          [bearer |-> token, status |-> status])
                /\ auth'[a].ret = Return(status)

\* C25: once an instance holds a token, every later get_token returns that
\* token and no acquisition is attempted again, expired or not; a request
\* sent after the expiry is answered with an auth error (401), and neither
\* a new acquisition nor a second request follows it.
C25_TokenCached == [][C25_Step]_vars

\* C25, its case: two requests went out with the same token, the first
\* answered 200, the second, after the expiry, 401.
C25_Witness ==
    \E a \in Agents :
        /\ auth[a].call = "_request" /\ Len(auth[a].sent) = 2
        /\ auth[a].sent[1].status = 200 /\ auth[a].sent[2].status = 401
        /\ auth[a].sent[1].bearer = auth[a].sent[2].bearer
        /\ auth[a].cached.access_token \in idp.expired

\* The order of the strategies, and the ones that apply to a configuration.
StrategyOrder(config) ==
    <<Attempt("client_credentials", config.client_id),
      Attempt("ropc", config.client_id), Attempt("ropc", AZURE_CLI_APP_ID),
      Attempt("ropc", GRAPH_CLI_APP_ID), Attempt("device_code", AZURE_CLI_APP_ID)>>

Applies(t, config, allow_interactive) ==
    CASE t.flow = "client_credentials" ->
            Truthy(config.client_id) /\ Truthy(config.client_secret)
      [] t.flow = "ropc" ->
            Truthy(t.client_id) /\ Truthy(config.username) /\ Truthy(config.password)
      [] OTHER -> allow_interactive

CredentialNames == {"M365_TENANT_ID", "M365_CLIENT_ID", "M365_CLIENT_SECRET"}

\* Variant of the test of the credentials that leaves the tenant id out.
HasCredentialsButTenant(tenant_id, client_id, client_secret) ==
    Truthy(client_id) /\ Truthy(client_secret)

\* all([tenant_id, client_id, client_secret])
HasCredentials(tenant_id, client_id, client_secret) ==
    Truthy(tenant_id) /\ Truthy(client_id) /\ Truthy(client_secret)

\* _load_dotenv: a key of the file is set unless os.environ has it.
load_dotenv(os, file) ==
    [k \in DOMAIN os \cup DOMAIN file |-> IF k \in DOMAIN os THEN os[k] ELSE file[k]]

Credentials(os) ==
    [tenant_id |-> DictGet(os, "M365_TENANT_ID", None),
     client_id |-> DictGet(os, "M365_CLIENT_ID", None),
     client_secret |-> DictGet(os, "M365_CLIENT_SECRET", None)]

\* M365Config.from_env: os.environ after it, and the configuration or the
\* ValueError.
from_env(env) ==
    LET os == load_dotenv(env.os, env.dotenv)
        c == Credentials(os)
    IN  [os |-> os,
         result |-> IF ~HasCredentials(c.tenant_id, c.client_id, c.client_secret)
                    THEN Raise("ValueError") ELSE Return(c)]

\* What an invocation hands to its caller: a structured payload (returned,
\* or printed by main as JSON or as a summary), plain text on stderr, or an
\* exception that escapes; exit is the exit code of the process of main.
NoExit == 0 - 1
Payload(success, error, exit) ==
    [kind |-> "payload", success |-> success, error |-> error, exit |-> exit]
Stderr(error) == [kind |-> "stderr", success |-> FALSE, error |-> error, exit |-> 1]
Escaped(exc, exit) == [kind |-> "escaped", success |-> FALSE, error |-> exc, exit |-> exit]

\* The exit code of main once it has a result: with --json the result is
\* printed and main returns; without, a failure ends in sys.exit(1).
cli_exit(json, success) == IF json THEN 0 ELSE IF success THEN 0 ELSE 1

\* An exception raised while the adapter serves: main has no except
\* clause (the interpreter prints the traceback and exits with 1), both
\* execute functions catch Exception.
Failed(entry, exc) ==
    IF entry = "cli" THEN Escaped(exc, 1) ELSE Payload(FALSE, exc, NoExit)

\* The result of an adapter that has a result dict.
Result(entry, json, success, error) ==
    Payload(success, error, IF entry = "cli" THEN cli_exit(json, success) ELSE NoExit)

\* Variant of the construction that authenticates with the default of
\* allow_interactive.
ConstructedInteractive(c, os, serial) ==
    LET inst == Authenticate(M365Auth(AuthConfig(c.tenant_id, None, None,
                                                 c.client_id, c.client_secret)),
                             TRUE, serial)
    IN  [os |-> os, inst |-> Called(inst, "authenticate", TRUE), made |-> TRUE,
         exc |-> inst.ret.exc]

\* Startup of an invocation: os.environ after it, the M365Auth instance
\* constructed (or the one at hand when none is), and the exception raised
\* ("" when there is none).  AgentCollaboration.__init__ authenticates with
\* allow_interactive=False.
Constructed(c, os, serial) ==
    LET inst == Authenticate(M365Auth(AuthConfig(c.tenant_id, None, None,
                                                 c.client_id, c.client_secret)),
                             FALSE, serial)
    IN  [os |-> os, inst |-> Called(inst, "authenticate", FALSE), made |-> TRUE,
         exc |-> inst.ret.exc]

Startup(a, entry) ==
    LET c == Credentials(environ.os)
        none == [os |-> environ.os, inst |-> auth[a], made |-> FALSE, exc |-> ""]
        env == from_env(environ)
    IN  CASE entry = "cli" ->
                IF ~HasCredentials(c.tenant_id, c.client_id, c.client_secret)
                THEN [none EXCEPT !.exc = "credentials"]
                ELSE Constructed(c, environ.os, idp.issued + 1)
          [] entry = "tool" ->
                IF run[a].singleton THEN none
                ELSE IF ~HasCredentials(c.tenant_id, c.client_id, c.client_secret)
                THEN [none EXCEPT !.exc = "ValueError"]
                ELSE Constructed(c, environ.os, idp.issued + 1)
          [] OTHER ->
                IF env.result.exc # ""
                THEN [none EXCEPT !.os = env.os, !.exc = env.result.exc]
                ELSE Constructed(env.result.val, env.os, idp.issued + 1)

\* How an invocation that could not start ends.
StartupFailure(entry, exc) ==
    CASE entry = "cli" ->
            IF exc = "credentials" THEN Stderr("M365 credentials required")
            ELSE Escaped(exc, 1)
      [] entry = "tool" -> Payload(FALSE, exc, NoExit)
      [] OTHER -> Escaped(exc, NoExit)

\* The check of the arguments before the orchestrator call: "" when the
\* call is made, otherwise how the invocation ends.
Operations == {"post_task", "claim_task", "complete_task", "get_pending_tasks"}

Rejected(entry, operation, args) ==
    IF operation \notin Operations
    THEN Result(entry, args.json, FALSE, "Unknown operation")
    ELSE IF operation = "post_task" /\ ~Truthy(args.title)
    THEN IF entry = "cli" THEN Stderr("--title required")
         ELSE Payload(FALSE, "TypeError", NoExit)
    ELSE IF operation \in {"claim_task", "complete_task"} /\ ~Truthy(args.task_id)
    THEN CASE entry = "cli" -> Stderr("--task-id required")
           [] entry = "tool" -> Payload(FALSE, "task_id required", NoExit)
           [] OTHER -> Payload(FALSE, "KeyError", NoExit)
    ELSE Payload(TRUE, "", NoExit)

\* Bound of the model: adapter invocations of one agent.
MaxRuns == 2

invoke(a, entry, operation, args) ==
    /\ run[a].n < MaxRuns
    /\ op[a].pc # "fetched"
    /\ LET start == Startup(a, entry)
           check == Rejected(entry, operation, args)
           began == [run[a] EXCEPT !.entry = entry, !.operation = operation,
                                   !.args = args, !.n = @ + 1]
       IN
        /\ environ' = [environ EXCEPT !.os = start.os]
        /\ auth' = [auth EXCEPT ![a] = start.inst]
        /\ idp' = Issued(auth[a], start.inst)
        /\ op' = [op EXCEPT ![a] = Idle]
        /\ drive' = [drive EXCEPT ![a] = IF start.made THEN FALSE ELSE @]
        /\ run' = [run EXCEPT ![a] =
                IF start.exc # ""
                THEN [began EXCEPT !.pc = "exited",
                                   !.result = StartupFailure(entry, start.exc),
                                   !.singleton = IF entry = "tool" THEN FALSE ELSE @]
                ELSE IF ~check.success
                THEN [began EXCEPT !.pc = "exited", !.result = check,
                                   !.singleton = IF entry = "tool" THEN TRUE ELSE @]
                ELSE [began EXCEPT !.pc = "serving", !.result = <<>>,
                                   !.singleton = IF entry = "tool" THEN TRUE ELSE @]]
    /\ UNCHANGED <<container, folder, prov, faults>>

\* The orchestrator call of the invocation.
serve(a) ==
    \/ /\ run[a].pc = "serving" /\ op[a].pc = "idle"
       /\ run[a].operation = "post_task"
       /\ post_task(a, run[a].args.title, "Check X",
                    IF run[a].entry = "cli" THEN "normal" ELSE Omitted, NoneDict)
    \/ /\ run[a].pc = "serving" /\ op[a].pc = "idle"
       /\ run[a].operation = "claim_task"
       /\ claim_task(a, run[a].args.task_id)
    \/ /\ run[a].pc = "serving" /\ op[a].pc = "idle"
       /\ run[a].operation = "complete_task"
       /\ complete_task(a, run[a].args.task_id, NoneDict)
    \/ /\ run[a].pc = "serving" /\ op[a].pc = "idle"
       /\ run[a].operation = "get_pending_tasks"
       /\ get_pending_tasks(a)
    \/ /\ run[a].pc = "serving"
       /\ update_put(a)

\* The invocation has ended, and what it handed to its caller.
Finished(a) ==
    run[a].pc = "exited" \/ (run[a].pc = "serving" /\ op[a].pc = "done")

Outcome(a) ==
    IF run[a].pc = "exited" THEN run[a].result
    ELSE CASE op[a].ret.kind = "raised" -> Failed(run[a].entry, op[a].ret.exc)
           [] op[a].ret.kind = "none" ->
                Result(run[a].entry, run[a].args.json, FALSE, "Task not found")
           [] OTHER -> Result(run[a].entry, run[a].args.json, TRUE, "")

Environs ==
    {[os |-> os, dotenv |-> file] :
        os \in {[M365_TENANT_ID |-> "tenant", M365_CLIENT_ID |-> "app-id",
                 M365_CLIENT_SECRET |-> "s3cret"],
                [M365_TENANT_ID |-> "tenant", M365_CLIENT_ID |-> "app-id"],
                [M365_TENANT_ID |-> "tenant", M365_CLIENT_ID |-> "app-id",
                 M365_CLIENT_SECRET |-> ""],
                [M365_CLIENT_ID |-> "app-id", M365_CLIENT_SECRET |-> "s3cret"]},
        file \in {<<>>, [M365_CLIENT_SECRET |-> "s3cret"]}}

AnyInvocations ==
    {[entry |-> e, operation |-> "post_task",
      args |-> [title |-> t, task_id |-> None, json |-> j]] :
        e \in {"cli", "tool", "execute"}, t \in {None, "Review"}, j \in BOOLEAN}
    \cup
    {[entry |-> e, operation |-> o,
      args |-> [title |-> None, task_id |-> id, json |-> j]] :
        e \in {"cli", "tool", "execute"}, o \in {"claim_task", "complete_task"},
        id \in {None} \cup TaskIds, j \in BOOLEAN}
    \cup
    {[entry |-> e, operation |-> o,
      args |-> [title |-> None, task_id |-> None, json |-> j]] :
        e \in {"cli", "tool", "execute"}, o \in {"get_pending_tasks", "bogus"},
        j \in BOOLEAN}

\* The invocations: --json is a flag of main only.
Invocations ==
    {i \in AnyInvocations : i.entry = "cli" \/ ~i.args.json}

InitAdapters ==
    /\ container = <<>>
    /\ folder = FALSE
    /\ drive = [a \in Agents |-> FALSE]
    /\ op = [a \in Agents |-> Idle]
    /\ prov = [n \in FileNames |-> <<>>]
    /\ faults \in BOOLEAN
    /\ environ \in Environs
    /\ idp \in {[grants |-> g, issued |-> 0, expired |-> {}] :
                    g \in {{}, {Attempt("client_credentials", "app-id")}}}
    /\ auth = [a \in Agents |-> M365Auth(<<>>)]
    /\ run = [a \in Agents |-> NoRun]

NextAdapters ==
    \/ \E i \in Invocations : invoke("agent-a", i.entry, i.operation, i.args)
    \/ serve("agent-a")

SpecAdapters == InitAdapters /\ [][NextAdapters]_vars

(***************************************************************************)
(* Properties of the adapters.                                             *)
(***************************************************************************)
\* C23: when main has ended, its exit code is 0 if the operation succeeded
\* and 1 if it did not, with --json and without.
C23_ExitCode ==
    \A a \in Agents :
        (run[a].entry = "cli" /\ Finished(a)) =>
            /\ Outcome(a).exit \in {0, 1}
            /\ Outcome(a).exit = 0 <=> Outcome(a).success

\* Without --json the exit code of main is 0 exactly when the operation
\* succeeded.
ExitCodeOfSummary ==
    \A a \in Agents :
        (run[a].entry = "cli" /\ ~run[a].args.json /\ Finished(a)) =>
            /\ Outcome(a).exit \in {0, 1}
            /\ Outcome(a).exit = 0 <=> Outcome(a).success

\* C24: an invocation of any adapter that ended without success handed a
\* structured failure payload to its caller; no exception escaped.
C24_NoEscape ==
    \A a \in Agents :
        (Finished(a) /\ ~Outcome(a).success) => Outcome(a).kind = "payload"

\* execute of tool.py hands a structured payload to its caller whatever
\* happens.
NoEscapeFromTool ==
    \A a \in Agents :
        (run[a].entry = "tool" /\ Finished(a)) => Outcome(a).kind = "payload"

\* A required credential is not set, or set to the empty string.
Missing(os) == \E k \in CredentialNames : k \notin DOMAIN os \/ os[k] = ""

\* C29: while a required credential is missing from the environment (for
\* execute of collaboration.py: after the .env file was read), every
\* invocation has ended at startup with an error, no M365Auth instance was
\* made, so no token acquisition was attempted, and no request went to the
\* store.
C29_MissingCredentials ==
    \A a \in Agents :
        (run[a].n >= 1 /\ Missing(environ.os)) =>
            /\ run[a].pc = "exited"
            /\ ~run[a].result.success
            /\ run[a].result.error \in {"ValueError", "M365 credentials required"}
            /\ auth[a] = M365Auth(<<>>)
            /\ idp.issued = 0
            /\ op[a] = Idle /\ ~drive[a]
            /\ container = <<>> /\ ~folder

\* C29, its case: the tenant id is missing, the provider would grant the
\* client credentials, and main and execute of tool.py were invoked.
C29_Witness ==
    /\ "M365_TENANT_ID" \notin DOMAIN environ.os
    /\ idp.grants # {}
    /\ run["agent-a"].n = 2
    /\ run["agent-a"].entry = "tool"
    /\ run["agent-a"].result = Payload(FALSE, "ValueError", NoExit)

(***************************************************************************)
(* Agreement of the reads with the posts.                                  *)
(***************************************************************************)
\* Agent a's last call was a post that returned m, and the file of m has
\* not been written since.
Posted(a) == op[a].call \in PostCalls /\ op[a].ret.kind = "msg" /\ MadeLast(a)

\* C31: while the file a post wrote for the message m it returned has not
\* been written again, a get_message(m.id) made after the post has returned
\* m, field for field, and a get_messages made after the post without
\* filters and with a limit of at least the number of files has returned a
\* list that contains m.
C31_PostReadAgreement ==
    \A a, b \in Agents :
        (Posted(a) /\ op[b].pc = "done" /\ op[b].at > op[a].at) =>
            /\ (op[b].call = "get_message" /\ op[b].mid = op[a].ret.msg.id) =>
                    op[b].ret = Msg(op[a].ret.msg)
            /\ (/\ op[b].call = "get_messages"
                /\ op[b].ftype = None /\ op[b].fstatus = None
                /\ op[b].limit >= Len(container)) =>
                    /\ op[b].ret.kind = "list"
                    /\ \E i \in DOMAIN op[b].ret.msgs :
                            op[b].ret.msgs[i] = op[a].ret.msg

\* C31, its case: two files are stored; the one written first is that of a
\* posted task, not written since, and a listing with limit 2, made after
\* the second file was written, has returned both messages.
C31_Witness ==
    \E a, b \in Agents :
        /\ Posted(a) /\ op[a].call = "post_task" /\ op[a].at = 0
        /\ op[b].call = "get_messages" /\ op[b].limit = 2 /\ op[b].at >= 2
        /\ Len(op[b].ret.msgs) = 2
        /\ op[b].ret.msgs[2] = op[a].ret.msg

\* C31, its other case: get_message has returned the posted task.
ReadBack ==
    \E a, b \in Agents :
        /\ Posted(a) /\ op[b].call = "get_message" /\ op[b].pc = "done"
        /\ op[b].at > op[a].at
        /\ op[b].ret = Msg(op[a].ret.msg)

(***************************************************************************)
(* The requests of one call: one agent posts, updates and lists against a  *)
(* store that may answer any request with an error status.                 *)
(***************************************************************************)
NextRequests ==
    \/ Calls("agent-a")
    \/ \E limit \in 1..MaxLimit : get_messages("agent-a", "get_messages", None, None, limit)
    \/ get_pending_tasks("agent-a")

SpecRequests == InitFaults /\ [][NextRequests]_vars

\* The requests a call has sent besides the lookup of the drive id: the
\* creation of the folder, the GET of one file, the PUTs, the listing and
\* the downloads of the listed entries.
Requests(c) ==
    [ensure |-> IF c.s_ensure # 0 THEN 1 ELSE 0,
     get |-> IF c.s_get # 0 THEN 1 ELSE 0,
     put |-> c.nput,
     list |-> IF c.s_list # 0 THEN 1 ELSE 0,
     download |-> Cardinality(Downloaded(c.listed))]

FailedDownload ==
    \E a \in Agents :
        /\ op[a].call = "get_messages" /\ op[a].limit = 1
        /\ Len(container) = 2 /\ Len(op[a].listed) = 1
        /\ op[a].failed = {1} /\ op[a].ret = MsgList(<<>>)

(***************************************************************************)
(* Keys and ids: one agent posts, the other updates the first message by   *)
(* its id, passed with the suffix ".json" or without.                      *)
(***************************************************************************)
SuffixedIds == {id \o ".json" : id \in TaskIds}

Keeper(a) ==
    \/ post_task(a, "Review", "Check X", Omitted, NoneDict)
    \/ post_message_plain(a, "Note", "FYI", Omitted, Omitted)

Updater(a) ==
    \/ \E id \in TaskIds \cup SuffixedIds : claim_task(a, id)
    \/ \E id \in TaskIds \cup SuffixedIds :
            update_message_status(a, id, "archived", [meta |-> [y |-> 2]])
    \/ update_put(a)

NextKeys == Keeper("agent-a") \/ Updater("agent-b")

SpecKeys == Init /\ [][NextKeys]_vars

\* The file stored under key holds a message whose id, suffixed, is key.
KeyOfId(key) ==
    /\ response_json(Body(container, key)).exc = ""
    /\ from_dict(response_json(Body(container, key)).val).exc = ""
    /\ key = Stored(key).id \o ".json"

\* The id an argument of an update names, passed suffixed or not.
IdOf(message_id) ==
    IF EndsWith(message_id, ".json") THEN Stem(message_id) ELSE message_id

\* C33: every file of the folder holds a message whose id, suffixed with
\* ".json", is the name of the file; a post writes the file named after the
\* id it returns, and an update addresses, reads and writes the file of that
\* name whether the id is passed with the suffix or without.
C33_KeyIdConsistency ==
    /\ \A key \in Names(container) : KeyOfId(key)
    /\ \A a \in Agents :
        /\ (op[a].call \in PostCalls /\ op[a].ret.kind = "msg") =>
                /\ op[a].name = op[a].ret.msg.id \o ".json"
                /\ op[a].wrote = Len(prov[op[a].name]) => KeyOfId(op[a].name)
        /\ (op[a].call \in UpdateCalls /\ op[a].mid \in TaskIds \cup SuffixedIds) =>
                /\ op[a].name = IdOf(op[a].mid) \o ".json"
                /\ op[a].existed => op[a].read.kind = "msg" \/ op[a].ret.kind = "msg"
                /\ op[a].read.kind = "msg" => op[a].read.msg.id = IdOf(op[a].mid)
                /\ op[a].ret.kind = "msg" =>
                        /\ op[a].ret.msg.id = IdOf(op[a].mid)
                        /\ op[a].wrote > 0
                        /\ prov[op[a].name][op[a].wrote].call = op[a].call

\* C33, its case: an update called with the suffixed id has written the
\* file of the first message, which was posted as a task, and no write has
\* followed.
C33_Witness ==
    \E a \in Agents :
        /\ op[a].call = "update_message_status" /\ op[a].pc = "done"
        /\ op[a].mid \in SuffixedIds
        /\ op[a].ret.kind = "msg"
        /\ MadeLast(a)
        /\ Stored(op[a].mid).id \o ".json" = op[a].mid
        /\ Stored(op[a].mid).status = "archived"
        /\ Len(container) = 2

(***************************************************************************)
(* Claims and completions of messages of every type: one agent posts       *)
(* messages of the six types, the other claims and completes the first     *)
(* message by its id.                                                      *)
(***************************************************************************)
OtherTypes == {Omitted, "query", "response"}

PosterOfAll(a) ==
    \/ post_task(a, "Review", "Check X", Omitted, NoneDict)
    \/ \E mt \in OtherTypes : post_message_plain(a, "Note", "FYI", mt, Omitted)
    \/ post_handoff(a, "Take over", "Part 2", [step |-> 2], "agent-b")
    \/ post_status(a, "Progress", "Half done", None)

Claimer(a) ==
    \/ \E id \in TaskIds : claim_task(a, id)
    \/ \E id \in TaskIds : complete_task(a, id, NoneDict)
    \/ update_put(a)

NextTypes == PosterOfAll("agent-a") \/ Claimer("agent-b")

SpecTypes == Init /\ [][NextTypes]_vars

\* C34: a claim_task or complete_task that found its message, of whatever
\* type, has returned it with status in_progress or completed and with
\* claimed_by or completed_by set to the caller, the type as read, and has
\* stored what it returned.
C34_TypeNotChecked ==
    \A a \in Agents :
        (/\ op[a].call \in {"claim_task", "complete_task"}
         /\ op[a].pc = "done" /\ op[a].read.kind = "msg") =>
            /\ op[a].ret.kind = "msg"
            /\ op[a].ret.msg.message_type = op[a].read.msg.message_type
            /\ op[a].ret.msg.id = op[a].read.msg.id
            /\ op[a].call = "claim_task" =>
                    /\ op[a].ret.msg.status = "in_progress"
                    /\ HasKey(op[a].ret.msg.context, "claimed_by", a)
            /\ op[a].call = "complete_task" =>
                    /\ op[a].ret.msg.status = "completed"
                    /\ HasKey(op[a].ret.msg.context, "completed_by", a)
            /\ MadeLast(a) => Stored(op[a].name) = op[a].ret.msg

\* C34, its case: a hand-off, read as completed, has been claimed and is
\* stored in progress.
C34_Witness ==
    \E a \in Agents :
        /\ op[a].call = "claim_task" /\ op[a].pc = "done"
        /\ op[a].read.kind = "msg"
        /\ op[a].read.msg.message_type = "handoff"
        /\ op[a].read.msg.status = "completed"
        /\ MadeLast(a)
        /\ Stored(op[a].name).status = "in_progress"
        /\ Stored(op[a].name).message_type = "handoff"

\* C34, its other case: a response, claimed before, has been completed.
ResponseCompleted ==
    \E a \in Agents :
        /\ op[a].call = "complete_task" /\ op[a].pc = "done"
        /\ op[a].ret.kind = "msg"
        /\ op[a].ret.msg.message_type = "response"
        /\ op[a].read.msg.status = "in_progress"

(***************************************************************************)
(* The creation of the folder and the outcome of a post.                   *)
(***************************************************************************)
\* C35: a post whose request to create the folder was answered, with
\* whatever status, has sent its PUT, and has returned the message when the
\* PUT was answered 200 or 201 and raised RuntimeError otherwise.
C35_EnsureNeverAborts ==
    \A a \in Agents :
        (op[a].call \in PostCalls /\ op[a].pc = "done" /\ op[a].s_ensure # 0) =>
            /\ op[a].nput = 1 /\ op[a].s_put # 0
            /\ op[a].s_put \in {200, 201} =>
                    (op[a].ret.kind = "msg" /\ op[a].wrote > 0)
            /\ op[a].s_put \notin {200, 201} =>
                    (op[a].ret = Raised("RuntimeError") /\ op[a].wrote = 0)

\* C35, its case: the creation of the folder was answered with an error
\* status, the PUT was served, and the post has returned the message, which
\* is stored.
C35_Witness ==
    \E a \in Agents :
        /\ op[a].call = "post_task" /\ op[a].pc = "done"
        /\ op[a].s_ensure = 503 /\ op[a].s_put = 201
        /\ op[a].ret.kind = "msg"
        /\ MadeLast(a)
        /\ Stored(op[a].name) = op[a].ret.msg

\* C35, its other case: the folder was created and the PUT refused.
CreatedThenRefused ==
    \E a \in Agents :
        /\ op[a].call = "post_task" /\ op[a].pc = "done"
        /\ op[a].s_ensure = 201 /\ op[a].s_put = 503
        /\ op[a].ret = Raised("RuntimeError")

(***************************************************************************)
(* The orchestrator and its M365Auth: agents construct orchestrators with  *)
(* the credentials they hold and send requests through the ones that       *)
(* exist, while the provider grants some flows and tokens expire.          *)
(***************************************************************************)
Secrets == {"", "s3cret"}

\* AgentCollaboration(tenant_id, client_id, client_secret): the orchestrator
\* exists (pc "serving") when __init__ has returned, and does not (pc
\* "exited") when the authentication raised.
construct(a, tenant_id, client_id, client_secret) ==
    /\ run[a].n < MaxRuns
    /\ LET c == [tenant_id |-> tenant_id, client_id |-> client_id,
                 client_secret |-> client_secret]
           start == Constructed(c, environ.os, idp.issued + 1)
       IN
        /\ auth' = [auth EXCEPT ![a] = start.inst]
        /\ idp' = Issued(M365Auth(<<>>), start.inst)
        /\ drive' = [drive EXCEPT ![a] = FALSE]
        /\ run' = [run EXCEPT ![a] =
                [NoRun EXCEPT !.entry = "__init__", !.args = c, !.n = run[a].n + 1,
                              !.pc = IF start.exc = "" THEN "serving" ELSE "exited",
                              !.result = IF start.exc = "" THEN Return(None)
                                         ELSE Raise(start.exc)]]
    /\ UNCHANGED <<container, folder, op, prov, faults, environ>>

\* A request of an orchestrator that exists.
orchestrator_request(a) == run[a].pc = "serving" /\ request(a)

InitOrchestrator ==
    /\ container = <<>>
    /\ folder = FALSE
    /\ drive = [a \in Agents |-> FALSE]
    /\ op = [a \in Agents |-> Idle]
    /\ prov = [n \in FileNames |-> <<>>]
    /\ faults = FALSE
    /\ environ = [os |-> <<>>, dotenv |-> <<>>]
    /\ run = [a \in Agents |-> NoRun]
    /\ auth = [a \in Agents |-> M365Auth(<<>>)]
    /\ idp \in {[grants |-> g, issued |-> 0, expired |-> {}] :
                    g \in SUBSET {Attempt("client_credentials", "app-id"),
                                  Attempt("device_code", AZURE_CLI_APP_ID)}}

NextOrchestrator ==
    \/ \E a \in Agents, client_secret \in Secrets :
            construct(a, "tenant", "app-id", client_secret)
    \/ \E a \in Agents : orchestrator_request(a)
    \/ expire

SpecOrchestrator == InitOrchestrator /\ [][NextOrchestrator]_vars

\* The strategies that need no user, granted to these credentials.
NonInteractive(c) ==
    {t \in idp.grants :
        /\ t.flow # "device_code"
        /\ Applies(t, AuthConfig(c.tenant_id, None, None, c.client_id,
                                 c.client_secret), FALSE)}

\* C36: the construction of an orchestrator authenticates with
\* allow_interactive false and never attempts the device code flow; it
\* raises exactly when no strategy that needs no user is granted; an
\* orchestrator that exists holds a token, obtained without a user, and a
\* request it sends makes no attempt to authenticate, expired token or not.
C36_NeverInteractive ==
    \A a \in Agents :
        run[a].entry = "__init__" =>
            /\ \A i \in DOMAIN auth[a].tried : auth[a].tried[i].flow # "device_code"
            /\ auth[a].call = "authenticate" => ~auth[a].allow
            /\ run[a].pc = "exited" <=> NonInteractive(run[a].args) = {}
            /\ run[a].pc = "exited" =>
                    /\ run[a].result = Raise("RuntimeError")
                    /\ auth[a].cached = NoToken
            /\ run[a].pc = "serving" =>
                    /\ auth[a].cached # NoToken
                    /\ auth[a].cached.by.flow # "device_code"
                    /\ auth[a].call = "_request" =>
                            /\ auth[a].mark = Len(auth[a].tried)
                            /\ auth[a].ret.exc = ""
                            /\ \A i \in DOMAIN auth[a].sent :
                                    auth[a].sent[i].bearer = auth[a].cached.access_token

\* C36, its case: the provider would grant the device code flow; an
\* orchestrator exists, its token has expired, and its request, sent with
\* that token, was answered 401.
C36_Witness ==
    \E a \in Agents :
        /\ Attempt("device_code", AZURE_CLI_APP_ID) \in idp.grants
        /\ run[a].pc = "serving"
        /\ auth[a].call = "_request"
        /\ auth[a].cached.access_token \in idp.expired
        /\ auth[a].sent[Len(auth[a].sent)].status = 401

\* C36, its other case: the provider grants the device code flow only, and
\* the construction has raised.
ConstructionRefused ==
    \E a \in Agents :
        /\ idp.grants = {Attempt("device_code", AZURE_CLI_APP_ID)}
        /\ run[a].pc = "exited"
        /\ run[a].args.client_secret = "s3cret"
        /\ auth[a].tried = <<Attempt("client_credentials", "app-id")>>

====
